---- MODULE Spec2Model ----
(***************************************************************************)
(* MySQL -> MariaDB 10.3 conversion engine (convertMySQLToMariaDB,         *)
(* src/client/src/pages/converter.tsx).                                    *)
(*                                                                         *)
(* The engine is an ordered pipeline of pattern rules over one working     *)
(* text.  Texts are TLA+ strings; every pattern of the source is           *)
(* hand-compiled into a matcher over character positions (1-based; a       *)
(* matcher returns the position just after the match, or 0 when the        *)
(* pattern does not match at the given start).                             *)
(*                                                                         *)
(* A TLA+ string cannot carry the backquote character, so the model        *)
(* writes the tilde for it (BT).  No pattern of the engine mentions the    *)
(* tilde, and in every character class of the engine the two characters    *)
(* fall on the same side, so the substitution does not change any match.   *)
(***************************************************************************)
EXTENDS Integers, Sequences, FiniteSets, TLC

VARIABLES parts, sqlContent, convertedSQL, issues, stats, pc, pass,
          results,
          conversionJobs, conversionIssues, conversionStats, handlers

vars == <<parts, sqlContent, convertedSQL, issues, stats, pc, pass, results,
          conversionJobs, conversionIssues, conversionStats, handlers>>

---------------------------------------------------------------------------
(* Characters and character classes                                        *)

BT == "~"

NL == "\n"

DQ == "\""

Digits == {"0","1","2","3","4","5","6","7","8","9"}

LowerLetters == {"a","b","c","d","e","f","g","h","i","j","k","l","m",
                 "n","o","p","q","r","s","t","u","v","w","x","y","z"}

UpperLetters == {"A","B","C","D","E","F","G","H","I","J","K","L","M",
                 "N","O","P","Q","R","S","T","U","V","W","X","Y","Z"}

WordChars == LowerLetters \cup UpperLetters \cup Digits \cup {"_"}

Space == {" ", "\n", "\t", "\r", "\f"}

UpperToLower == [A |-> "a", B |-> "b", C |-> "c", D |-> "d", E |-> "e",
                 F |-> "f", G |-> "g", H |-> "h", I |-> "i", J |-> "j",
                 K |-> "k", L |-> "l", M |-> "m", N |-> "n", O |-> "o",
                 P |-> "p", Q |-> "q", R |-> "r", S |-> "s", T |-> "t",
                 U |-> "u", V |-> "v", W |-> "w", X |-> "x", Y |-> "y",
                 Z |-> "z"]


Char(s, i) == SubSeq(s, i, i)

LowerChar(c) == IF c \in UpperLetters THEN UpperToLower[c] ELSE c


Min(S) == CHOOSE x \in S : \A y \in S : x <= y

\* String.prototype.toLowerCase
RECURSIVE ToLowerCase(_)
ToLowerCase(s) ==
  IF Len(s) <= 1 THEN LowerChar(s)
  ELSE ToLowerCase(SubSeq(s, 1, Len(s) \div 2))
       \o ToLowerCase(SubSeq(s, Len(s) \div 2 + 1, Len(s)))

---------------------------------------------------------------------------
(* Pattern primitives.  A position p = 0 is a failed match and is passed   *)
(* through by every primitive.                                             *)

\* literal text, flag i: the literal kw is written in lower case
KwAt(s, p, kw) ==
  /\ p >= 1
  /\ p + Len(kw) - 1 <= Len(s)
  /\ LowerChar(Char(s, p)) = Char(kw, 1)
  /\ ToLowerCase(SubSeq(s, p, p + Len(kw) - 1)) = kw

K(s, p, kw) == IF p # 0 /\ KwAt(s, p, kw) THEN p + Len(kw) ELSE 0

\* literal text, case-sensitive
LitAt(s, p, lit) ==
  /\ p >= 1
  /\ p + Len(lit) - 1 <= Len(s)
  /\ SubSeq(s, p, p + Len(lit) - 1) = lit

L(s, p, lit) == IF p # 0 /\ LitAt(s, p, lit) THEN p + Len(lit) ELSE 0

\* first position in lo..hi whose character is outside cls, or inside cls
\* when neg (hi + 1 if none)
RECURSIVE First(_, _, _, _, _)
First(s, lo, hi, cls, neg) ==
  IF lo > hi THEN hi + 1
  ELSE IF lo = hi THEN (IF (Char(s, lo) \in cls) = neg THEN lo ELSE lo + 1)
  ELSE LET Right(mid, r) ==
             IF r <= mid THEN r ELSE First(s, mid + 1, hi, cls, neg)
           Left(mid) == Right(mid, First(s, lo, mid, cls, neg))
       IN  Left((lo + hi) \div 2)

\* last position in lo..hi whose character is outside cls (lo - 1 if none)
RECURSIVE LastOutside(_, _, _, _)
LastOutside(s, lo, hi, cls) ==
  IF lo > hi THEN lo - 1
  ELSE IF lo = hi THEN (IF Char(s, lo) \in cls THEN lo - 1 ELSE lo)
  ELSE LET Left(mid, r) ==
             IF r > mid THEN r ELSE LastOutside(s, lo, mid, cls)
           Right(mid) == Left(mid, LastOutside(s, mid + 1, hi, cls))
       IN  Right((lo + hi) \div 2)

\* greedy [cls]* and [cls]+ ; greedy [^cls]* and [^cls]+
\* the end of the run that starts at lo, searched in blocks of doubling
\* width: the first position from lo on whose character is outside cls
\* (inside cls when neg), Len(s) + 1 if none
RECURSIVE RunEnd(_, _, _, _, _)
RunEnd(s, lo, width, cls, neg) ==
  LET Found(hi, r) ==
        IF r <= hi THEN r ELSE RunEnd(s, hi + 1, 2 * width, cls, neg)
      Block(hi) == Found(hi, First(s, lo, hi, cls, neg))
  IN  IF lo > Len(s) THEN lo
      ELSE Block(IF lo + width - 1 < Len(s) THEN lo + width - 1 ELSE Len(s))

\* an alternation: the end of the first alternative that matches
Alt(p, q) == IF p # 0 THEN p ELSE q

\* the position n characters after p
Skip(p, n) == IF p = 0 THEN 0 ELSE p + n

\* the greatest element of a set of positions, 0 for the empty set
Greatest(S) == IF S = {} THEN 0 ELSE CHOOSE x \in S : \A y \in S : x >= y

\* the end e of a repetition started at p that must consume a character
NonEmpty(p, e) == IF p # 0 /\ e > p THEN e ELSE 0

Star(s, p, cls) == IF p = 0 THEN 0 ELSE RunEnd(s, p, 1, cls, FALSE)

Plus(s, p, cls) == NonEmpty(p, Star(s, p, cls))

StarNot(s, p, cls) == IF p = 0 THEN 0 ELSE RunEnd(s, p, 1, cls, TRUE)

PlusNot(s, p, cls) == NonEmpty(p, StarNot(s, p, cls))

\* \s* and \s+
S0(s, p) == Star(s, p, Space)

S1(s, p) == Plus(s, p, Space)

\* an optional single character (e.g. ;? )
Opt(s, p, c) == IF p = 0 THEN 0 ELSE IF LitAt(s, p, c) THEN p + 1 ELSE p

IsWordAt(s, p) == p >= 1 /\ p <= Len(s) /\ Char(s, p) \in WordChars

\* \b between positions p - 1 and p
WordBoundary(s, p) == IsWordAt(s, p - 1) # IsWordAt(s, p)

B(s, p) == IF p # 0 /\ WordBoundary(s, p) THEN p ELSE 0

\* s[a .. b], empty when a is past the end
Slice(s, a, b) == IF a > Len(s) THEN "" ELSE SubSeq(s, a, b)

\* String.prototype.trim
Trim(s) ==
  Slice(s, First(s, 1, Len(s), Space, FALSE), LastOutside(s, 1, Len(s), Space))

\* the least element of a set of positions, 0 for the empty set
Least(S) == IF S = {} THEN 0 ELSE Min(S)

\* String.prototype.indexOf, 1-based; 0 when absent
IndexOf(content, searchText) ==
  IF searchText = "" THEN 1
  ELSE Least({i \in 1..(Len(content) - Len(searchText) + 1) :
                /\ Char(content, i) = Char(searchText, 1)
                /\ SubSeq(content, i, i + Len(searchText) - 1) = searchText})

IncludesNothing(content, searchText) == FALSE

\* String.prototype.includes
Includes(content, searchText) == IndexOf(content, searchText) # 0

\* pattern.test(text) for a case-insensitive literal pattern
IncludesI(content, kw) ==
  \E i \in 1..(Len(content) - Len(kw) + 1) : KwAt(content, i, kw)

\* number of occurrences (possibly overlapping) of a literal
Occurrences(content, lit) ==
  Cardinality({i \in 1..(Len(content) - Len(lit) + 1) : LitAt(content, i, lit)})

\* content.split('\n').length
LineCount(content) ==
  1 + Cardinality({i \in 1..Len(content) : Char(content, i) = NL})


---------------------------------------------------------------------------
(* Issues and statistics                                                   *)

NoStats == [totalIssues |-> 0, autoFixed |-> 0, warningsCount |-> 0,
            errorsCount |-> 0, optimizationsCount |-> 0]

\* getLineNumber counting from line 0
getLineNumberZeroBased(content, searchText) ==
  LET LineOf(index) ==
        IF index = 0 THEN 0 ELSE LineCount(SubSeq(content, 1, index - 1)) - 1
  IN  LineOf(IndexOf(content, searchText))

\* getLineNumber(content, searchText)
getLineNumber(content, searchText) ==
  LET LineOf(index) ==
        IF index = 0 THEN 1 ELSE LineCount(SubSeq(content, 1, index - 1))
  IN  LineOf(IndexOf(content, searchText))

\* getLineNumber of lib/sql-converter.ts:
\* content.substring(0, content.indexOf(searchText)).split('\n').length ;
\* substring reads the index -1 of a text that is not found as 0
libGetLineNumber(content, searchText) ==
  LET Substring(index) == IF index = 0 THEN "" ELSE SubSeq(content, 1, index - 1)
  IN  LineCount(Substring(IndexOf(content, searchText)))

\* an issue recorded as fixed without its convertedText
FixedWithoutText(line, type, cat, desc, orig, conv, fixed) ==
  [lineNumber |-> line, issueType |-> type, category |-> cat,
   description |-> desc, originalText |-> orig, autoFixed |-> fixed]

\* an issue with originalText and convertedText
Fixed(line, type, cat, desc, orig, conv, fixed) ==
  [lineNumber |-> line, issueType |-> type, category |-> cat,
   description |-> desc, originalText |-> orig, convertedText |-> conv,
   autoFixed |-> fixed]

\* an issue without convertedText
Flagged(line, type, cat, desc, orig) ==
  [lineNumber |-> line, issueType |-> type, category |-> cat,
   description |-> desc, originalText |-> orig, autoFixed |-> FALSE]


\* addIssue(issues, stats, issue); acc is the pair (issues, stats)
addIssue(acc, issue) ==
  LET \* the counter addIssue's switch increments for an issue type
      SeverityCounter(type) ==
        CASE type = "warning" -> "warningsCount"
          [] type = "error"   -> "errorsCount"
          [] type = "info"    -> "optimizationsCount"
  IN  LET s1 == IF issue.autoFixed
                THEN [acc.stats EXCEPT !.autoFixed = @ + 1]
                ELSE acc.stats
          c  == SeverityCounter(issue.issueType)
      IN  [issues |-> Append(acc.issues, issue),
           stats  |-> [s1 EXCEPT ![c] = @ + 1]]

\* pushIssue with the stats.autoFixed++ line left out
pushIssueNoAutoFixed(acc, issue, counter) ==
  [issues |-> Append(acc.issues, issue),
   stats  |-> [acc.stats EXCEPT ![counter] = @ + 1]]

\* the hand-written bookkeeping of the rules that do not call addIssue:
\* issues.push(issue); stats.<counter>++; stats.autoFixed++
pushIssue(acc, issue, counter) ==
  [issues |-> Append(acc.issues, issue),
   stats  |-> [acc.stats EXCEPT ![counter] = @ + 1, !.autoFixed = @ + 1]]

\* record the issues of one rule, in match order; counter = "" for the
\* rules that go through addIssue
RECURSIVE Record(_, _, _)
Record(acc, new, counter) ==
  IF new = <<>> THEN acc
  ELSE Record(IF counter = "" THEN addIssue(acc, Head(new))
              ELSE pushIssue(acc, Head(new), counter),
              Tail(new), counter)

---------------------------------------------------------------------------
(* String.prototype.replace(pattern /g, callback)                          *)
(* A rule gives, for every position j, the end of the match that starts at *)
(* j (0: none) and, for every match, the callback's result: its            *)
(* replacement text and the issues it records.  Matches are taken leftmost *)
(* first and do not overlap.                                               *)

Keep(m) == [text |-> m, issues |-> <<>>]

With(text, issue) == [text |-> text, issues |-> <<issue>>]

\* the matches among the pairs <<start, end>>
Matches(ends) == {m \in ends : m[2] # 0}

\* res maps every match <<start, end>> to the callback's result
RECURSIVE Stitch(_, _, _, _, _)
Stitch(s, res, from, out, iss) ==
  LET Take(m) ==
        Stitch(s, res, m[2], out \o SubSeq(s, from, m[1] - 1) \o res[m].text,
               iss \o res[m].issues)
      Rest(cand) ==
        IF cand = {}
        THEN [text |-> out \o SubSeq(s, from, Len(s)), issues |-> iss]
        ELSE Take(CHOOSE m \in cand : \A o \in cand : m[1] <= o[1])
  IN  Rest({m \in DOMAIN res : m[1] >= from})

ReplaceAll(s, res) == Stitch(s, res, 1, "", <<>>)

\* the positions at which a word starts (\b followed by a word character)
WordStarts(s) == {j \in 1..Len(s) : IsWordAt(s, j) /\ ~IsWordAt(s, j - 1)}

\* one rule of the pipeline applied to the engine state
\* eng = [sql, issues, stats]
Apply(eng, out, counter) ==
  LET Result(acc) == [sql |-> out.text, issues |-> acc.issues, stats |-> acc.stats]
  IN  Result(Record([issues |-> eng.issues, stats |-> eng.stats],
                    out.issues, counter))

---------------------------------------------------------------------------
(* The rules, in pipeline order.  Each takes the original input (content,  *)
(* used only for line numbers) and the engine state eng, and returns the   *)
(* engine state after the rule.                                            *)

mysqlCollationMap ==
  << <<"utf8mb4_0900_ai_ci", "utf8mb4_unicode_ci">>,
     <<"utf8mb4_0900_as_ci", "utf8mb4_unicode_ci">>,
     <<"utf8mb4_0900_as_cs", "utf8mb4_bin">>,
     <<"utf8mb4_0900_bin", "utf8mb4_bin">>,
     <<"utf8mb4_cs_0900_ai_ci", "utf8mb4_unicode_ci">>,
     <<"utf8mb4_cs_0900_as_cs", "utf8mb4_bin">>,
     <<"utf8mb4_da_0900_ai_ci", "utf8mb4_unicode_ci">>,
     <<"utf8mb4_da_0900_as_cs", "utf8mb4_bin">>,
     <<"utf8mb4_de_pb_0900_ai_ci", "utf8mb4_unicode_ci">>,
     <<"utf8mb4_de_pb_0900_as_cs", "utf8mb4_bin">>,
     <<"utf8mb4_eo_0900_ai_ci", "utf8mb4_unicode_ci">>,
     <<"utf8mb4_eo_0900_as_cs", "utf8mb4_bin">>,
     <<"utf8mb4_es_0900_ai_ci", "utf8mb4_unicode_ci">>,
     <<"utf8mb4_es_0900_as_cs", "utf8mb4_bin">>,
     <<"utf8mb4_es_trad_0900_ai_ci", "utf8mb4_unicode_ci">>,
     <<"utf8mb4_es_trad_0900_as_cs", "utf8mb4_bin">>,
     <<"utf8mb4_et_0900_ai_ci", "utf8mb4_unicode_ci">>,
     <<"utf8mb4_et_0900_as_cs", "utf8mb4_bin">>,
     <<"utf8mb4_hr_0900_ai_ci", "utf8mb4_unicode_ci">>,
     <<"utf8mb4_hr_0900_as_cs", "utf8mb4_bin">>,
     <<"utf8mb4_hu_0900_ai_ci", "utf8mb4_unicode_ci">>,
     <<"utf8mb4_hu_0900_as_cs", "utf8mb4_bin">>,
     <<"utf8mb4_is_0900_ai_ci", "utf8mb4_unicode_ci">>,
     <<"utf8mb4_is_0900_as_cs", "utf8mb4_bin">>,
     <<"utf8mb4_ja_0900_as_cs", "utf8mb4_bin">>,
     <<"utf8mb4_ja_0900_as_cs_ks", "utf8mb4_bin">>,
     <<"utf8mb4_la_0900_ai_ci", "utf8mb4_unicode_ci">>,
     <<"utf8mb4_la_0900_as_cs", "utf8mb4_bin">>,
     <<"utf8mb4_lt_0900_ai_ci", "utf8mb4_unicode_ci">>,
     <<"utf8mb4_lt_0900_as_cs", "utf8mb4_bin">>,
     <<"utf8mb4_lv_0900_ai_ci", "utf8mb4_unicode_ci">>,
     <<"utf8mb4_lv_0900_as_cs", "utf8mb4_bin">>,
     <<"utf8mb4_pl_0900_ai_ci", "utf8mb4_unicode_ci">>,
     <<"utf8mb4_pl_0900_as_cs", "utf8mb4_bin">>,
     <<"utf8mb4_ro_0900_ai_ci", "utf8mb4_unicode_ci">>,
     <<"utf8mb4_ro_0900_as_cs", "utf8mb4_bin">>,
     <<"utf8mb4_ru_0900_ai_ci", "utf8mb4_unicode_ci">>,
     <<"utf8mb4_ru_0900_as_cs", "utf8mb4_bin">>,
     <<"utf8mb4_sk_0900_ai_ci", "utf8mb4_unicode_ci">>,
     <<"utf8mb4_sk_0900_as_cs", "utf8mb4_bin">>,
     <<"utf8mb4_sl_0900_ai_ci", "utf8mb4_unicode_ci">>,
     <<"utf8mb4_sl_0900_as_cs", "utf8mb4_bin">>,
     <<"utf8mb4_sv_0900_ai_ci", "utf8mb4_unicode_ci">>,
     <<"utf8mb4_sv_0900_as_cs", "utf8mb4_bin">>,
     <<"utf8mb4_tr_0900_ai_ci", "utf8mb4_unicode_ci">>,
     <<"utf8mb4_tr_0900_as_cs", "utf8mb4_bin">>,
     <<"utf8mb4_vi_0900_ai_ci", "utf8mb4_unicode_ci">>,
     <<"utf8mb4_vi_0900_as_cs", "utf8mb4_bin">>,
     <<"utf8mb4_zh_0900_as_cs", "utf8mb4_bin">>,
     <<"utf8_0900_ai_ci", "utf8mb4_unicode_ci">>,
     <<"utf8_0900_as_ci", "utf8mb4_unicode_ci">>,
     <<"utf8_0900_as_cs", "utf8mb4_bin">>,
     <<"utf8_0900_bin", "utf8mb4_bin">> >>


\* the map of the engine in lib/sql-converter.ts
libCollationMap ==
  << <<"utf8mb4_0900_ai_ci", "utf8mb4_unicode_ci">>,
     <<"utf8mb4_0900_as_ci", "utf8mb4_unicode_ci">>,
     <<"utf8mb4_0900_as_cs", "utf8mb4_unicode_ci">>,
     <<"utf8mb4_0900_bin", "utf8mb4_bin">>,
     <<"utf8_0900_ai_ci", "utf8mb4_unicode_ci">>,
     <<"utf8_0900_as_ci", "utf8mb4_unicode_ci">> >>


\* /\b<mysqlCollation>\b/gi : the names consist of word characters, so the
\* pattern matches exactly the words equal to the name
CollationMatch(words, j, mysqlCollation) ==
  IF <<j, mysqlCollation>> \in words THEN j + Len(mysqlCollation) ELSE 0


\* /DEFINER\s*=\s*[^@]*@[^\s]*\s+/gi
DefinerMatch(s, j) ==
  LET eq == L(s, S0(s, K(s, j, "definer")), "=")
      at == L(s, StarNot(s, eq, {"@"}), "@")
  IN  S1(s, StarNot(s, at, Space))


\* first position >= p at which the literal lit starts (0: none)
FirstLit(s, p, lit) ==
  IF p = 0 THEN 0 ELSE Least({q \in p..(Len(s) - Len(lit) + 1) : LitAt(s, q, lit)})

\* /\/\*!(\d+)\s+([\s\S]*?)\*\//g ; VersionCommentBody is the start of
\* group 2 and VersionCommentMatch the end of the match
VersionCommentBody(s, j) == S1(s, Plus(s, L(s, j, "/*!"), Digits))

VersionCommentMatch(s, j) ==
  Skip(FirstLit(s, VersionCommentBody(s, j), "*/"), 2)

\* problematicHints.some(pattern => pattern.test(trimmedContent))
isProblematic(trimmedContent) ==
  \/ LitAt(trimmedContent, 1, "@@")
  \/ L(trimmedContent, S1(trimmedContent, K(trimmedContent, 1, "set")), "@@") # 0
  \/ IncludesI(trimmedContent, "use_index")
  \/ IncludesI(trimmedContent, "force_index")
  \/ IncludesI(trimmedContent, "ignore_index")
  \/ IncludesI(trimmedContent, "sql_calc_found_rows")


\* `[^`]+`
QuotedName(s, p) == L(s, PlusNot(s, L(s, p, BT), {BT}), BT)


Quotes == {"'", DQ}

\* /,?\s*<mode>\s*,?/gi
ModeTokenMatch(s, j, mode) ==
  Opt(s, S0(s, K(s, S0(s, Opt(s, j, ",")), mode)), ",")

RemoveModeToken(s, mode) ==
  LET M(j) == ModeTokenMatch(s, j, mode)
      CB(j, e) == Keep("")
  IN  ReplaceAll(s, [m \in Matches({<<j, M(j)>> : j \in 1..Len(s)}) |->
                        CB(m[1], m[2])]).text


cleanedMode(mode) ==
  LET \* .replace(/^,+|,+$/g, '')
      StripCommas(s) ==
        Slice(s, First(s, 1, Len(s), {","}, FALSE), LastOutside(s, 1, Len(s), {","}))

      \* .replace(/,+/g, ',')
      CollapseCommas(s) ==
        LET M(j) == Plus(s, j, {","})
            CB(j, e) == Keep(",")
        IN  ReplaceAll(s, [m \in Matches({<<j, M(j)>> : j \in 1..Len(s)}) |->
                              CB(m[1], m[2])]).text
  IN  CollapseCommas(StripCommas(
        RemoveModeToken(RemoveModeToken(mode, "no_auto_create_user"),
                        "no_engine_substitution")))


\* /(LOCK\s+TABLES[^;]+;)\s*/gi
LockTablesMatch(s, j) ==
  S0(s, L(s, PlusNot(s, K(s, S1(s, K(s, j, "lock")), "tables"), {";"}), ";"))


\* /(UNLOCK\s+TABLES;)\s*/gi
UnlockTablesMatch(s, j) ==
  S0(s, K(s, S1(s, K(s, j, "unlock")), "tables;"))


\* \s+COLLATE\s+\w+ at p
CollateClause(s, p) == Plus(s, S1(s, K(s, S1(s, p), "collate")), WordChars)


\* /DEFAULT\s+CHARSET\s*=\s*(\w+)/gi ; DefaultCharsetName is the start of
\* group 1
DefaultCharsetName(s, j) ==
  IF KwAt(s, j, "default")
  THEN S0(s, L(s, S0(s, K(s, S1(s, K(s, j, "default")), "charset")), "="))
  ELSE 0


\* /ENGINE\s*=\s*InnoDB/gi
EngineMatch(s, j) ==
  IF KwAt(s, j, "engine")
  THEN K(s, S0(s, L(s, S0(s, K(s, j, "engine")), "=")), "innodb")
  ELSE 0


\* the characters . does not match
LineTerminators == {"\n", "\r"}


\* content.split('\n'), as the sequence of its lines
RECURSIVE SplitFrom(_, _)
SplitFrom(s, from) ==
  LET Line(nl) ==
        IF nl > Len(s) THEN <<SubSeq(s, from, Len(s))>>
        ELSE <<SubSeq(s, from, nl - 1)>> \o SplitFrom(s, nl + 1)
  IN  Line(First(s, from, Len(s), {NL}, TRUE))

Split(s) == SplitFrom(s, 1)


\* the issues of a lines.forEach(...) that flags the lines whose index is
\* in hits (the lines that pass the rule's test)
RECURSIVE FlagLines(_, _, _, _, _)
FlagLines(lines, index, hits, type, desc) ==
  LET \* line.trim().startsWith('--')
      IsCommentLine(line) == LitAt(Trim(line), 1, "--")
  IN  IF index > Len(lines) THEN <<>>
      ELSE (IF index \in hits /\ ~IsCommentLine(lines[index])
            THEN <<Flagged(index, type, "compatibility", desc, Trim(lines[index]))>>
            ELSE <<>>)
           \o FlagLines(lines, index + 1, hits, type, desc)



\* the ends d of group 2 of the INVISIBLE pattern when group 2 starts at a:
\* [^,)]+ up to d, then \s+INVISIBLE\b
InvisibleDefEnds(s, a) ==
  LET r == StarNot(s, a, {",", ")"})
  IN  {d \in (a + 1)..(r - 1) :
         Char(s, d) \in Space /\ B(s, K(s, S1(s, d), "invisible")) # 0}

\* /(`[^`]+`)\s+([^,)]+)\s+INVISIBLE\b/gi ; the result is the record of the
\* match: name end q, group 2 from a to d, end e (e = 0: no match).  The
\* first \s+ and group 2 are greedy: group 2 starts after the whole blank
\* run and ends as late as possible; only if that fails does the blank run
\* give characters back to group 2, which then is one blank.
InvisibleParse(s, j) ==
  LET Result(q, a, d) ==
        IF a = 0 THEN [e |-> 0]
        ELSE IF d # 0
        THEN [e |-> B(s, K(s, S1(s, d), "invisible")), q |-> q, a |-> a, d |-> d]
        ELSE IF a - q >= 3 /\ B(s, K(s, a, "invisible")) # 0
        THEN [e |-> B(s, K(s, a, "invisible")), q |-> q, a |-> a - 2, d |-> a - 1]
        ELSE [e |-> 0]
      Group2(q, a) == Result(q, a, Greatest(InvisibleDefEnds(s, a)))
      Name(q) == Group2(q, S1(s, q))
  IN  Name(QuotedName(s, j))


ColumnChars == WordChars \cup {BT, "."}


\* /(ALTER\s+TABLE\s+[^\s]+\s+<verb>\s+KEYS;)\s*/gi for DISABLE and ENABLE
KeysMatch(s, j, verb) ==
  IF KwAt(s, j, "alter")
  THEN LET name == PlusNot(s, S1(s, K(s, S1(s, j + 5), "table")), Space)
       IN  S0(s, L(s, K(s, S1(s, K(s, S1(s, name), verb)), "keys"), ";"))
  ELSE 0

KeysRule(content, eng, verb, desc) ==
  LET s == eng.sql
      M(j) == KeysMatch(s, j, verb)
      CB(j, e) ==
        LET match == SubSeq(s, j, e - 1)
        IN  With(match,
                 Fixed(getLineNumber(content, match), "info", "compatibility",
                       desc, Trim(match), Trim(match), TRUE))
  IN  Apply(eng, ReplaceAll(s, [m \in Matches({<<j, M(j)>> : j \in 1..Len(s)}) |->
                                   CB(m[1], m[2])]), "optimizationsCount")


\* str.substring(Math.max(0, offset - window), offset), offset = j - 1
BeforeMatch(s, j, window) ==
  SubSeq(s, IF j - window > 1 THEN j - window ELSE 1, j - 1)

\* /CREATE\s+TABLE/i.test(text)
HasCreateTable(text) ==
  \E i \in 1..Len(text) :
     KwAt(text, i, "create") /\ K(text, S1(text, i + 6), "table") # 0


\* a guard that would look at all the text before the match
InCreateTableUnbounded(s, j, window) == HasCreateTable(SubSeq(s, 1, j - 1))

\* the context guards of the DDL-only rules
InCreateTable(s, j, window) == HasCreateTable(BeforeMatch(s, j, window))


\* /COLLATE\s+<name>/gi
CollateMatch(s, j, name) ==
  IF KwAt(s, j, "collate") THEN K(s, S1(s, j + 7), name) ELSE 0

\* the two guarded COLLATE rules
CollateRule(content, eng, name, replacement, desc) ==
  LET \* /ALTER\s+TABLE/i.test(text)
      HasAlterTable(text) ==
        \E i \in 1..Len(text) :
           KwAt(text, i, "alter") /\ K(text, S1(text, i + 5), "table") # 0

      InCreateOrAlter(s, j, window) ==
        HasCreateTable(BeforeMatch(s, j, window)) \/ HasAlterTable(BeforeMatch(s, j, window))
  IN  LET s == eng.sql
          M(j) == CollateMatch(s, j, name)
          CB(j, e) ==
            LET match == SubSeq(s, j, e - 1)
            IN  IF ~InCreateOrAlter(s, j, 500) THEN Keep(match)
                ELSE With(replacement,
                          Fixed(getLineNumber(content, match), "info", "compatibility",
                                desc, match, replacement, TRUE))
      IN  Apply(eng, ReplaceAll(s, [m \in Matches({<<j, M(j)>> : j \in 1..Len(s)}) |->
                                       CB(m[1], m[2])]), "optimizationsCount")


\* ^ with the m flag
LineStart(s, j) == j = 1 \/ Char(s, j - 1) \in LineTerminators


\* /varchar\s*\(\s*([2-9]\d{2}|[1-9]\d{3,})\s*\)/i.test(text)
HasLargeVarchar(text) ==
  LET \* the digits text[d .. n-1] are a number of at least 200
      Large(d, n) ==
        /\ d # 0
        /\ \/ n - d = 3 /\ Char(text, d) \in Digits \ {"0", "1"}
           \/ n - d >= 4 /\ Char(text, d) \in Digits \ {"0"}
        /\ L(text, S0(text, n), ")") # 0
      Number(d) == Large(d, Star(text, d, Digits))
  IN  \E i \in 1..Len(text) :
         /\ KwAt(text, i, "varchar")
         /\ Number(S0(text, L(text, S0(text, i + 7), "(")))

\* /(KEY|INDEX)\s+([\w`]*)?\s*\(([^)]+)\)/gi ; IndexColumns is the start of
\* group 3
IndexColumns(s, j) ==
  L(s, S0(s, Star(s, S1(s, Alt(K(s, j, "key"), K(s, j, "index"))),
                  WordChars \cup {BT})), "(")

IndexMatch(s, j) == L(s, PlusNot(s, IndexColumns(s, j), {")"}), ")")


\* /(`[^`]+`)\s+(json)(\b[^,)]*)/gi ; JsonColumnType is the end of group 2
JsonColumnType(s, j) == B(s, K(s, S1(s, QuotedName(s, j)), "json"))

JsonColumnMatch(s, j) ==
  IF LitAt(s, j, BT) THEN StarNot(s, JsonColumnType(s, j), {",", ")"}) ELSE 0


\* \b(text|longtext|mediumtext|tinytext)\b at j: the end of the type
TextType(s, j) ==
  IF ~WordBoundary(s, j) THEN 0
  ELSE Alt(B(s, K(s, j, "text")),
           Alt(B(s, K(s, j, "longtext")),
               Alt(B(s, K(s, j, "mediumtext")), B(s, K(s, j, "tinytext")))))

\* /\b(text|longtext|mediumtext|tinytext)\b(?!\w)(\s+CHARACTER\s+SET\s+\w+)?
\*  (\s+COLLATE\s+[\w_]+)?/gi ; the result is the record of the match: type
\* end u, charset part end p (= u when absent), end e (e = 0: no match)
TextFieldParse(s, j) ==
  LET Result(u, p) == [e |-> Alt(CollateClause(s, p), p), u |-> u, p |-> p]
      Charset(u) ==
        Result(u, Alt(Plus(s, S1(s, K(s, S1(s, K(s, S1(s, u), "character")), "set")),
                           WordChars), u))
  IN  Charset(TextType(s, j))


\* /\bvarchar\((\d+)\)(?!\s+CHARACTER\s+SET\s+utf8mb4)/gi
VarcharMatch(s, j) ==
  IF KwAt(s, j, "varchar(") /\ WordBoundary(s, j)
  THEN LET \* the negative lookahead at the end e of the type
           NoCharset(e) ==
             IF e # 0 /\ K(s, S1(s, K(s, S1(s, K(s, S1(s, e), "character")), "set")),
                           "utf8mb4") = 0
             THEN e ELSE 0
       IN  NoCharset(L(s, Plus(s, j + 8, Digits), ")"))
  ELSE 0


\* the line feeds of the blank run that starts at j
RunNewlines(s, j) == {i \in j..(S0(s, j) - 1) : Char(s, i) = NL}


header ==
  "-- MariaDB 10.3 Compatible SQL Export\n"
  \o "-- Optimized for ALL data types including colors, emojis, special characters\n"
  \o "SET NAMES utf8mb4 COLLATE utf8mb4_general_ci;\n"
  \o "SET character_set_client = utf8mb4;\n"
  \o "SET character_set_connection = utf8mb4;\n"
  \o "SET character_set_results = utf8mb4;\n"
  \o "SET FOREIGN_KEY_CHECKS = 0;\n"
  \o "SET SQL_MODE = \"NO_AUTO_VALUE_ON_ZERO\";\n"
  \o "SET AUTOCOMMIT = 0;\n"
  \o "START TRANSACTION;\n"
  \o "SET time_zone = \"+00:00\";\n"
  \o "\n"


---------------------------------------------------------------------------
(* The conversion as a state machine.  One call of convertMySQLToMariaDB   *)
(* runs the rules in the order of Pipeline; pc names the rule that runs    *)
(* next and is "done" once the result is returned.  parts remembers the    *)
(* fragments the first input was assembled from; pass counts the calls:    *)
(* after a call has returned, its convertedSQL can be fed back as the      *)
(* input of the next call.                                                 *)

Pipeline ==
  << "collation", "setNames", "definer", "dumping", "versionComment",
     "ifNotExists", "latin1", "usingBtree", "localInfile",
     "foreignKeyChecks", "sqlMode", "lockTables", "unlockTables",
     "defaultCharacterSet", "defaultCharset", "engineInnoDB", "int11", "cte",
     "windowFunction", "generatedColumn", "invisible", "checkConstraint",
     "jsonFunction", "jsonOperator", "fulltext", "partition", "jsonLine",
     "autoIncrement", "timestamp", "disableKeys", "enableKeys", "charsetUtf8",
     "collateGeneral", "plainKey", "characterSetUtf8", "defaultCharsetUtf8",
     "indexLength", "rowFormat", "jsonColumn", "textField", "varcharField",
     "collateUnicode", "tripleNewlines", "emptyLines", "header", "commit",
     "return" >>

\* the step after the step called name
After(name) ==
  LET k == CHOOSE i \in 1..Len(Pipeline) : Pipeline[i] = name
  IN  IF k = Len(Pipeline) THEN "done" ELSE Pipeline[k + 1]

MaxParts == 2

MaxPasses == 2



\* new MemStorage(): the three maps are empty, and no request is in flight
Fresh ==
  /\ conversionJobs = <<>>
  /\ conversionIssues = <<>>
  /\ conversionStats = <<>>
  /\ handlers = <<>>

\* the entry of convertMySQLToMariaDB on the input assembled from parts
Start(pool) ==
  LET RECURSIVE Concat(_)
      Concat(seq) == IF seq = <<>> THEN "" ELSE Head(seq) \o Concat(Tail(seq))
  IN  /\ parts \in UNION {[1..n -> pool] : n \in 0..MaxParts}
      /\ sqlContent = Concat(parts)
      /\ convertedSQL = sqlContent
      /\ issues = <<>>
      /\ stats = NoStats
      /\ pc = Pipeline[1]
      /\ pass = 1
      /\ results = {}
      /\ Fresh

Eng == [sql |-> convertedSQL, issues |-> issues, stats |-> stats]

\* the step called name leaves the working text and the accumulators as
\* its rule returned them (r)
Step(name, r) ==
  /\ pc = name
  /\ convertedSQL' = r.sql
  /\ issues' = r.issues
  /\ stats' = r.stats
  /\ pc' = After(name)
  /\ UNCHANGED <<parts, sqlContent, pass, results>>
  /\ UNCHANGED <<conversionJobs, conversionIssues, conversionStats, handlers>>

\* Object.entries(map).forEach(...) : the entries of map are applied in
\* order; counter is the statistic the callback increments by hand ("" when
\* it calls addIssue)
CollationRule(content, eng, map, counter, description) ==
  LET \* the word that starts at j, in lower case
      WordAt(s, j) == ToLowerCase(SubSeq(s, j, Star(s, j, WordChars) - 1))

      \* every name of the map starts with utf8: the words of the text an entry
      \* of the map can match, as pairs <<position, word>>
      CollationWords(s) ==
        {<<j, WordAt(s, j)>> : j \in {i \in WordStarts(s) : KwAt(s, i, "utf8")}}

      \* one entry of the map: the replace and its callback
      CollationEntry(e0, words, mysqlCollation, mariadbCollation) ==
        LET s == e0.sql
            M(j) == CollationMatch(words, j, mysqlCollation)
            CB(j, e) ==
              LET match == SubSeq(s, j, e - 1)
              IN  With(mariadbCollation,
                       Fixed(getLineNumber(content, match), "warning", "compatibility",
                             description, match, mariadbCollation, TRUE))
        IN  Apply(e0, ReplaceAll(s, [m \in Matches({<<j, M(j)>> : j \in ({w[1] : w \in words})}) |->
                                        CB(m[1], m[2])]), counter)

      \* the loop from entry k on; words is CollationWords of the current text
      RECURSIVE CollationLoop(_, _, _)
      CollationLoop(e0, words, k) ==
        IF k > Len(map) THEN e0
        ELSE LET Continue(next) ==
                   IF next.sql = e0.sql
                   THEN CollationLoop(next, words, k + 1)
                   ELSE CollationLoop(next, CollationWords(next.sql), k + 1)
             IN  Continue(CollationEntry(e0, words, map[k][1], map[k][2]))
  IN  CollationLoop(eng, CollationWords(eng.sql), 1)

ReplaceCollations ==
  Step("collation", CollationRule(sqlContent, Eng, mysqlCollationMap, "",
                                  "Replaced MySQL 8.0+ collation"))

FixSetNames ==
  LET \* /SET\s+NAMES\s+utf8\b(?!\s*mb4)/gi
      SetNamesMatch(s, j) ==
        LET p == B(s, K(s, S1(s, K(s, S1(s, K(s, j, "set")), "names")), "utf8"))
        IN  IF p # 0 /\ K(s, S0(s, p), "mb4") = 0 THEN p ELSE 0

      SetNamesRule(content, eng) ==
        LET s == eng.sql
            M(j) == SetNamesMatch(s, j)
            CB(j, e) ==
              LET match == SubSeq(s, j, e - 1)
              IN  With("SET NAMES utf8mb4",
                       Fixed(getLineNumber(content, match), "warning", "compatibility",
                             "Upgraded SET NAMES utf8 to utf8mb4", match,
                             "SET NAMES utf8mb4", TRUE))
        IN  Apply(eng, ReplaceAll(s, [m \in Matches({<<j, M(j)>> : j \in 1..Len(s)}) |->
                                         CB(m[1], m[2])]), "")
  IN  Step("setNames", SetNamesRule(sqlContent, Eng))

RemoveDefiner ==
  LET DefinerRule(content, eng) ==
        LET s == eng.sql
            M(j) == DefinerMatch(s, j)
            CB(j, e) ==
              LET match == SubSeq(s, j, e - 1)
              IN  With("",
                       Fixed(getLineNumber(content, match), "warning", "compatibility",
                             "Removed DEFINER clause", Trim(match),
                             "-- Removed DEFINER", TRUE))
        IN  Apply(eng, ReplaceAll(s, [m \in Matches({<<j, M(j)>> : j \in 1..Len(s)}) |->
                                         CB(m[1], m[2])]), "")
  IN  Step("definer", DefinerRule(sqlContent, Eng))

RemoveDumpingComments ==
  LET \* /-- Dumping\s+(structure|data)\s+for\s+table[^\n]*\n/gi
      DumpingMatch(s, j) ==
        LET a == S1(s, K(s, j, "-- dumping"))
            b == IF K(s, a, "structure") # 0 THEN K(s, a, "structure")
                 ELSE K(s, a, "data")
            c == K(s, S1(s, K(s, S1(s, b), "for")), "table")
        IN  L(s, StarNot(s, c, {NL}), NL)

      DumpingRule(content, eng) ==
        LET s == eng.sql
            M(j) == DumpingMatch(s, j)
            CB(j, e) ==
              LET match == SubSeq(s, j, e - 1)
              IN  With("",
                       Fixed(getLineNumber(content, match), "info", "compatibility",
                             "Removed HeidiSQL dump comment", Trim(match),
                             "-- Table structure cleaned", TRUE))
        IN  Apply(eng, ReplaceAll(s, [m \in Matches({<<j, M(j)>> : j \in 1..Len(s)}) |->
                                         CB(m[1], m[2])]), "")
  IN  Step("dumping", DumpingRule(sqlContent, Eng))

TriageVersionComments ==
  LET VersionCommentRule(content, eng) ==
        LET s == eng.sql
            M(j) == VersionCommentMatch(s, j)
            CB(j, e) ==
              LET match == SubSeq(s, j, e - 1)
                  trimmedContent == Trim(SubSeq(s, VersionCommentBody(s, j), e - 3))
              IN  IF isProblematic(trimmedContent)
                  THEN With("",
                            Fixed(getLineNumber(content, match), "warning", "compatibility",
                                  "Removed problematic MySQL-specific optimizer hint or setting",
                                  match, "-- Removed problematic hint", TRUE))
                  ELSE With(match,
                            Flagged(getLineNumber(content, match), "info", "compatibility",
                                    "MySQL version comment preserved", match))
        IN  Apply(eng, ReplaceAll(s, [m \in Matches({<<j, M(j)>> : j \in 1..Len(s)}) |->
                                         CB(m[1], m[2])]), "")
  IN  Step("versionComment", VersionCommentRule(sqlContent, Eng))

CheckIfNotExists ==
  LET \* /CREATE\s+TABLE\s+IF\s+NOT\s+EXISTS\s+((?:`[^`]+`\.)?`[^`]+`|\w+)/gi
      IfNotExistsMatch(s, j) ==
        LET a == S1(s, K(s, S1(s, K(s, S1(s, K(s, S1(s, K(s, S1(s, K(s, j,
                   "create")), "table")), "if")), "not")), "exists"))
            qualified == QuotedName(s, L(s, QuotedName(s, a), "."))
            quoted    == QuotedName(s, a)
        IN  IF qualified # 0 THEN qualified
            ELSE IF quoted # 0 THEN quoted
            ELSE Plus(s, a, WordChars)

      IfNotExistsRule(content, eng) ==
        LET s == eng.sql
            M(j) == IfNotExistsMatch(s, j)
            CB(j, e) ==
              LET match == SubSeq(s, j, e - 1)
              IN  With(match,
                       Flagged(getLineNumber(content, match), "info", "compatibility",
                               "CREATE TABLE IF NOT EXISTS is supported", match))
        IN  Apply(eng, ReplaceAll(s, [m \in Matches({<<j, M(j)>> : j \in 1..Len(s)}) |->
                                         CB(m[1], m[2])]), "")
  IN  Step("ifNotExists", IfNotExistsRule(sqlContent, Eng))

ConvertLatin1 ==
  LET \* /CHARSET=latin1\s+COLLATE=latin1_swedish_ci/gi
      Latin1Match(s, j) ==
        K(s, S1(s, K(s, j, "charset=latin1")), "collate=latin1_swedish_ci")

      Latin1Rule(content, eng) ==
        LET s == eng.sql
            M(j) == Latin1Match(s, j)
            CB(j, e) ==
              LET match == SubSeq(s, j, e - 1)
                  replacement == "CHARSET=utf8mb4 COLLATE=utf8mb4_general_ci"
              IN  With(replacement,
                       Fixed(getLineNumber(content, match), "warning", "compatibility",
                             "Converted latin1_swedish_ci to utf8mb4_general_ci",
                             match, replacement, TRUE))
        IN  Apply(eng, ReplaceAll(s, [m \in Matches({<<j, M(j)>> : j \in 1..Len(s)}) |->
                                         CB(m[1], m[2])]), "warningsCount")
  IN  Step("latin1", Latin1Rule(sqlContent, Eng))

RemoveUsingBtree ==
  LET \* /\s+USING\s+BTREE/gi
      UsingBtreeMatch(s, j) == K(s, S1(s, K(s, S1(s, j), "using")), "btree")

      UsingBtreeRule(content, eng) ==
        LET s == eng.sql
            M(j) == UsingBtreeMatch(s, j)
            CB(j, e) ==
              LET match == SubSeq(s, j, e - 1)
              IN  With("",
                       Fixed(getLineNumber(content, match), "info", "compatibility",
                             "Removed USING BTREE index hint", Trim(match),
                             "-- Removed index hint", TRUE))
        IN  Apply(eng, ReplaceAll(s, [m \in Matches({<<j, M(j)>> : j \in 1..Len(s)}) |->
                                         CB(m[1], m[2])]), "optimizationsCount")
  IN  Step("usingBtree", UsingBtreeRule(sqlContent, Eng))

RemoveLocalInfile ==
  LET \* /SET\s+@@global\.local_infile\s*=\s*[^;]+;?\s*/gi
      \* (\s*[^;]+ is one run of [^;] of length at least 1: \s is inside [^;])
      LocalInfileMatch(s, j) ==
        LET eq == L(s, S0(s, K(s, S1(s, K(s, j, "set")), "@@global.local_infile")), "=")
        IN  S0(s, Opt(s, PlusNot(s, eq, {";"}), ";"))

      LocalInfileRule(content, eng) ==
        LET s == eng.sql
            M(j) == LocalInfileMatch(s, j)
            CB(j, e) ==
              LET match == SubSeq(s, j, e - 1)
              IN  With("-- " \o Trim(match) \o " -- Removed for MariaDB compatibility\n",
                       Fixed(getLineNumber(content, match), "warning", "compatibility",
                             "Removed MySQL-specific @@global.local_infile setting",
                             Trim(match), "-- Removed MySQL-specific setting", TRUE))
        IN  Apply(eng, ReplaceAll(s, [m \in Matches({<<j, M(j)>> : j \in 1..Len(s)}) |->
                                         CB(m[1], m[2])]), "warningsCount")
  IN  Step("localInfile", LocalInfileRule(sqlContent, Eng))

FixForeignKeyChecks ==
  LET \* /SET\s+FOREIGN_KEY_CHECKS\s*=\s*([01]);?\s*/gi ; ForeignKeyValue is the
      \* position of group 1
      ForeignKeyValue(s, j) ==
        S0(s, L(s, S0(s, K(s, S1(s, K(s, j, "set")), "foreign_key_checks")), "="))

      ForeignKeyMatch(s, j) ==
        LET v == ForeignKeyValue(s, j)
        IN  IF v # 0 /\ v <= Len(s) /\ Char(s, v) \in {"0", "1"}
            THEN S0(s, Opt(s, v + 1, ";")) ELSE 0

      ForeignKeyRule(content, eng) ==
        LET s == eng.sql
            M(j) == ForeignKeyMatch(s, j)
            CB(j, e) ==
              LET match == SubSeq(s, j, e - 1)
                  value == Char(s, ForeignKeyValue(s, j))
                  replacement == "SET foreign_key_checks = " \o value \o ";"
              IN  With(replacement \o NL,
                       Fixed(getLineNumber(content, match), "info", "compatibility",
                             "Updated FOREIGN_KEY_CHECKS syntax", Trim(match),
                             replacement, TRUE))
        IN  Apply(eng, ReplaceAll(s, [m \in Matches({<<j, M(j)>> : j \in 1..Len(s)}) |->
                                         CB(m[1], m[2])]), "optimizationsCount")
  IN  Step("foreignKeyChecks", ForeignKeyRule(sqlContent, Eng))

CleanSqlMode ==
  LET \* /SET\s+SQL_MODE\s*=\s*['"]([^'"]*?)['"];?\s*/gi ; SqlModeValue is the
      \* start of group 1, SqlModeClose the closing quote
      SqlModeValue(s, j) ==
        LET Open(q) == IF q # 0 /\ q <= Len(s) /\ Char(s, q) \in Quotes THEN q + 1 ELSE 0
        IN  Open(S0(s, L(s, S0(s, K(s, S1(s, K(s, j, "set")), "sql_mode")), "=")))

      SqlModeClose(s, j) ==
        LET Close(v, c) == IF v # 0 /\ c <= Len(s) THEN c ELSE 0
            Value(v) == Close(v, StarNot(s, v, Quotes))
        IN  Value(SqlModeValue(s, j))

      SqlModeMatch(s, j) == S0(s, Opt(s, Skip(SqlModeClose(s, j), 1), ";"))

      SqlModeRule(content, eng) ==
        LET s == eng.sql
            M(j) == SqlModeMatch(s, j)
            CB(j, e) ==
              LET match == SubSeq(s, j, e - 1)
                  mode == SubSeq(s, SqlModeValue(s, j), SqlModeClose(s, j) - 1)
                  replacement == "SET SQL_MODE = '" \o cleanedMode(mode) \o "';"
              IN  With(replacement \o NL,
                       Fixed(getLineNumber(content, match), "warning", "compatibility",
                             "Cleaned SQL_MODE setting", Trim(match), replacement, TRUE))
        IN  Apply(eng, ReplaceAll(s, [m \in Matches({<<j, M(j)>> : j \in 1..Len(s)}) |->
                                         CB(m[1], m[2])]), "warningsCount")
  IN  Step("sqlMode", SqlModeRule(sqlContent, Eng))

CommentLockTables ==
  LET LockTablesRule(content, eng) ==
        LET s == eng.sql
            M(j) == LockTablesMatch(s, j)
            CB(j, e) ==
              LET match == SubSeq(s, j, e - 1)
              IN  With("-- " \o Trim(match) \o " -- Review for MariaDB compatibility\n",
                       Fixed(getLineNumber(content, match), "warning", "compatibility",
                             "Commented out LOCK TABLES statement", Trim(match),
                             "-- " \o Trim(match), TRUE))
        IN  Apply(eng, ReplaceAll(s, [m \in Matches({<<j, M(j)>> : j \in 1..Len(s)}) |->
                                         CB(m[1], m[2])]), "warningsCount")
  IN  Step("lockTables", LockTablesRule(sqlContent, Eng))

CommentUnlockTables ==
  LET UnlockTablesRule(content, eng) ==
        LET s == eng.sql
            M(j) == UnlockTablesMatch(s, j)
            CB(j, e) ==
              LET match == SubSeq(s, j, e - 1)
              IN  With("-- " \o Trim(match) \o " -- Review for MariaDB compatibility\n",
                       Fixed(getLineNumber(content, match), "warning", "compatibility",
                             "Commented out UNLOCK TABLES statement", Trim(match),
                             "-- " \o Trim(match), TRUE))
        IN  Apply(eng, ReplaceAll(s, [m \in Matches({<<j, M(j)>> : j \in 1..Len(s)}) |->
                                         CB(m[1], m[2])]), "warningsCount")
  IN  Step("unlockTables", UnlockTablesRule(sqlContent, Eng))

FixDefaultCharacterSet ==
  LET \* /DEFAULT\s+CHARACTER\s+SET\s+(\w+)(\s+COLLATE\s+\w+)?/gi ;
      \* DefaultCharacterSetName is the start of group 1, ...End its end
      DefaultCharacterSetName(s, j) ==
        IF KwAt(s, j, "default")
        THEN S1(s, K(s, S1(s, K(s, S1(s, K(s, j, "default")), "character")), "set"))
        ELSE 0

      DefaultCharacterSetEnd(s, j) == Plus(s, DefaultCharacterSetName(s, j), WordChars)

      DefaultCharacterSetMatch(s, j) ==
        LET c == DefaultCharacterSetEnd(s, j)
        IN  IF CollateClause(s, c) # 0 THEN CollateClause(s, c) ELSE c

      DefaultCharacterSetRule(content, eng) ==
        LET s == eng.sql
            M(j) == DefaultCharacterSetMatch(s, j)
            CB(j, e) ==
              LET match == SubSeq(s, j, e - 1)
                  charset == SubSeq(s, DefaultCharacterSetName(s, j),
                                    DefaultCharacterSetEnd(s, j) - 1)
                  collate == SubSeq(s, DefaultCharacterSetEnd(s, j), e - 1)
                  replacement == "CHARACTER SET " \o charset \o collate
              IN  With(replacement,
                       Fixed(getLineNumber(content, match), "info", "compatibility",
                             "Updated character set declaration", match, replacement, TRUE))
        IN  Apply(eng, ReplaceAll(s, [m \in Matches({<<j, M(j)>> : j \in 1..Len(s)}) |->
                                         CB(m[1], m[2])]), "optimizationsCount")
  IN  Step("defaultCharacterSet", DefaultCharacterSetRule(sqlContent, Eng))

FixDefaultCharset ==
  LET DefaultCharsetMatch(s, j) == Plus(s, DefaultCharsetName(s, j), WordChars)

      DefaultCharsetRule(content, eng) ==
        LET s == eng.sql
            M(j) == DefaultCharsetMatch(s, j)
            CB(j, e) ==
              LET match == SubSeq(s, j, e - 1)
                  charset == SubSeq(s, DefaultCharsetName(s, j), e - 1)
                  replacement == "CHARACTER SET=" \o charset
              IN  With(replacement,
                       Fixed(getLineNumber(content, match), "warning", "syntax",
                             "Converted DEFAULT CHARSET to CHARACTER SET", match,
                             replacement, TRUE))
        IN  Apply(eng, ReplaceAll(s, [m \in Matches({<<j, M(j)>> : j \in 1..Len(s)}) |->
                                         CB(m[1], m[2])]), "")
  IN  Step("defaultCharset", DefaultCharsetRule(sqlContent, Eng))

VerifyEngine ==
  LET EngineRule(content, eng) ==
        LET s == eng.sql
            M(j) == EngineMatch(s, j)
            CB(j, e) ==
              LET match == SubSeq(s, j, e - 1)
              IN  With(match,
                       Fixed(getLineNumber(content, match), "info", "compatibility",
                             "Verified InnoDB engine declaration", match, match, TRUE))
        IN  Apply(eng, ReplaceAll(s, [m \in Matches({<<j, M(j)>> : j \in 1..Len(s)}) |->
                                         CB(m[1], m[2])]), "")
  IN  Step("engineInnoDB", EngineRule(sqlContent, Eng))

SimplifyInt ==
  LET \* /\b(int)\((\d+)\)/gi
      IntMatch(s, j) ==
        IF KwAt(s, j, "int(") /\ WordBoundary(s, j)
        THEN L(s, Plus(s, j + 4, Digits), ")")
        ELSE 0

      IntRule(content, eng) ==
        LET s == eng.sql
            M(j) == IntMatch(s, j)
            CB(j, e) ==
              LET match == SubSeq(s, j, e - 1)
                  size == SubSeq(s, j + 4, e - 2)
              IN  IF size = "11"
                  THEN With("int",
                            Fixed(getLineNumber(content, match), "info", "optimization",
                                  "Simplified int(11) to int", match, "int", TRUE))
                  ELSE Keep(match)
        IN  Apply(eng, ReplaceAll(s, [m \in Matches({<<j, M(j)>> : j \in 1..Len(s)}) |->
                                         CB(m[1], m[2])]), "")
  IN  Step("int11", IntRule(sqlContent, Eng))

DetectCte ==
  LET \* ([\w`]+)\s*\([^)]*\)\s*AS\s*\( at p
      CteTail(s, p) ==
        LET name == Plus(s, p, WordChars \cup {BT})
            args == L(s, StarNot(s, L(s, S0(s, name), "("), {")"}), ")")
        IN  L(s, S0(s, K(s, S0(s, args), "as")), "(")

      \* /\bWITH\s+(RECURSIVE\s+)?([\w`]+)\s*\([^)]*\)\s*AS\s*\(/gi
      CteMatch(s, j) ==
        IF KwAt(s, j, "with") /\ WordBoundary(s, j)
        THEN LET a == S1(s, j + 4)
                 r == CteTail(s, S1(s, K(s, a, "recursive")))
             IN  IF r # 0 THEN r ELSE CteTail(s, a)
        ELSE 0

      CteRule(content, eng) ==
        LET s == eng.sql
            M(j) == CteMatch(s, j)
            CB(j, e) ==
              LET match == SubSeq(s, j, e - 1)
              IN  With(match,
                       Flagged(getLineNumber(content, match), "warning", "compatibility",
                               "CTE (Common Table Expression) detected", Trim(match)))
        IN  Apply(eng, ReplaceAll(s, [m \in Matches({<<j, M(j)>> : j \in (WordStarts(s))}) |->
                                         CB(m[1], m[2])]), "")
  IN  Step("cte", CteRule(sqlContent, Eng))

DetectWindowFunctions ==
  LET windowFunctions ==
        << "row_number", "rank", "dense_rank", "percent_rank", "cume_dist", "ntile",
           "lag", "lead", "first_value", "last_value", "nth_value" >>

      \* \)\s+OVER\s*\( at q
      OverTail(s, q) == L(s, S0(s, K(s, S1(s, L(s, q, ")")), "over")), "(")

      \* /\b<func>\s*\(.*?\)\s+OVER\s*\(/gi : .*? stops at the first ) of the
      \* line after which the rest of the pattern matches
      WindowMatch(s, j, func) ==
        IF KwAt(s, j, func) /\ WordBoundary(s, j)
        THEN LET open  == L(s, S0(s, j + Len(func)), "(")
                 limit == StarNot(s, open, LineTerminators)
                 stops == {q \in open..(limit - 1) : OverTail(s, q) # 0}
             IN  IF open = 0 \/ stops = {} THEN 0 ELSE OverTail(s, Min(stops))
        ELSE 0

      WindowEntry(content, eng, cands, func) ==
        LET s == eng.sql
            M(j) == WindowMatch(s, j, func)
            CB(j, e) ==
              LET match == SubSeq(s, j, e - 1)
              IN  With(match,
                       Flagged(getLineNumber(content, match), "info", "compatibility",
                               "Window function detected", Trim(match)))
        IN  Apply(eng, ReplaceAll(s, [m \in Matches({<<j, M(j)>> : j \in (cands)}) |->
                                         CB(m[1], m[2])]), "")

      \* windowFunctions.forEach(...) from entry k on (the text never changes)
      RECURSIVE WindowLoop(_, _, _, _)
      WindowLoop(content, eng, cands, k) ==
        IF k > Len(windowFunctions) THEN eng
        ELSE LET next == WindowEntry(content, eng, cands, windowFunctions[k])
             IN  IF next.sql = eng.sql
                 THEN WindowLoop(content, next, cands, k + 1)
                 ELSE WindowLoop(content, next, WordStarts(next.sql), k + 1)

      WindowRule(content, eng) == WindowLoop(content, eng, WordStarts(eng.sql), 1)
  IN  Step("windowFunction", WindowRule(sqlContent, Eng))

DetectGeneratedColumns ==
  LET \* /\bAS\s*\([^)]*\)\s+(VIRTUAL|STORED)\b/gi at j
      GeneratedMatch(s, j) ==
        IF KwAt(s, j, "as") /\ WordBoundary(s, j)
        THEN LET a == S1(s, L(s, StarNot(s, L(s, S0(s, j + 2), "("), {")"}), ")"))
             IN  IF B(s, K(s, a, "virtual")) # 0 THEN B(s, K(s, a, "virtual"))
                 ELSE B(s, K(s, a, "stored"))
        ELSE 0

      GeneratedTest(line) == \E j \in 1..Len(line) : GeneratedMatch(line, j) # 0

      GeneratedRule(content, eng) ==
        LET lines == Split(content)
            hits  == {index \in 1..Len(lines) : GeneratedTest(lines[index])}
        IN
        Apply(eng,
              [text |-> eng.sql,
               issues |-> FlagLines(lines, 1, hits, "warning",
                                    "Generated/computed column detected")],
              "")
  IN  Step("generatedColumn", GeneratedRule(sqlContent, Eng))

RemoveInvisible ==
  LET InvisibleMatch(s, j) == IF LitAt(s, j, BT) THEN InvisibleParse(s, j).e ELSE 0

      InvisibleRule(content, eng) ==
        LET s == eng.sql
            M(j) == InvisibleMatch(s, j)
            CB(j, e) ==
              LET match == SubSeq(s, j, e - 1)
                  m == InvisibleParse(s, j)
                  columnName == SubSeq(s, j, m.q - 1)
                  columnDef == SubSeq(s, m.a, m.d - 1)
                  replacement == columnName \o " " \o columnDef
                                 \o " -- INVISIBLE not supported in MariaDB 10.3"
              IN  With(replacement,
                       Fixed(getLineNumber(content, match), "error", "compatibility",
                             "INVISIBLE column attribute removed", match, replacement, TRUE))
        IN  Apply(eng, ReplaceAll(s, [m \in Matches({<<j, M(j)>> : j \in 1..Len(s)}) |->
                                         CB(m[1], m[2])]), "")
  IN  Step("invisible", InvisibleRule(sqlContent, Eng))

DetectCheckConstraints ==
  LET \* /CONSTRAINT\s+([\w`]+)\s+CHECK\s*\(([^)]+)\)/gi
      CheckMatch(s, j) ==
        IF KwAt(s, j, "constraint")
        THEN LET name == Plus(s, S1(s, j + 10), WordChars \cup {BT})
                 open == L(s, S0(s, K(s, S1(s, name), "check")), "(")
             IN  L(s, PlusNot(s, open, {")"}), ")")
        ELSE 0

      CheckRule(content, eng) ==
        LET s == eng.sql
            M(j) == CheckMatch(s, j)
            CB(j, e) ==
              LET match == SubSeq(s, j, e - 1)
              IN  With(match,
                       Flagged(getLineNumber(content, match), "info", "compatibility",
                               "CHECK constraint detected", match))
        IN  Apply(eng, ReplaceAll(s, [m \in Matches({<<j, M(j)>> : j \in 1..Len(s)}) |->
                                         CB(m[1], m[2])]), "")
  IN  Step("checkConstraint", CheckRule(sqlContent, Eng))

DetectJsonFunctions ==
  LET jsonFunctions ==
        << "json_extract", "json_unquote", "json_set", "json_insert", "json_replace",
           "json_remove", "json_array", "json_object", "json_arrayagg",
           "json_objectagg" >>

      \* /\b<func>\s*\(/gi
      JsonFunctionMatch(s, j, func) ==
        IF KwAt(s, j, func) /\ WordBoundary(s, j)
        THEN L(s, S0(s, j + Len(func)), "(")
        ELSE 0

      JsonFunctionEntry(content, eng, cands, func) ==
        LET s == eng.sql
            M(j) == JsonFunctionMatch(s, j, func)
            CB(j, e) ==
              LET match == SubSeq(s, j, e - 1)
              IN  With(match,
                       Flagged(getLineNumber(content, match), "warning", "compatibility",
                               "JSON function detected", Trim(match)))
        IN  Apply(eng, ReplaceAll(s, [m \in Matches({<<j, M(j)>> : j \in (cands)}) |->
                                         CB(m[1], m[2])]), "")

      \* jsonFunctions.forEach(...) from entry k on (the text never changes)
      RECURSIVE JsonFunctionLoop(_, _, _, _)
      JsonFunctionLoop(content, eng, cands, k) ==
        IF k > Len(jsonFunctions) THEN eng
        ELSE LET next == JsonFunctionEntry(content, eng, cands, jsonFunctions[k])
             IN  IF next.sql = eng.sql
                 THEN JsonFunctionLoop(content, next, cands, k + 1)
                 ELSE JsonFunctionLoop(content, next, WordStarts(next.sql), k + 1)

      JsonFunctionRule(content, eng) ==
        JsonFunctionLoop(content, eng, WordStarts(eng.sql), 1)
  IN  Step("jsonFunction", JsonFunctionRule(sqlContent, Eng))

ConvertJsonOperators ==
  LET PathChars == WordChars \cup {"[", "]", DQ, "'", ".", "$"}

      \* /([\w`\.]+)\s*(->>?)\s*(["'][^"']*["']|\$\.[\w\[\]"'\.$]+)/gi ; the
      \* result is the record of the match: column end c, operator from o to p
      \* (exclusive), path start v, end e (e = 0: no match)
      JsonOperatorParse(s, j) ==
        LET Closed(close) == IF close <= Len(s) THEN close + 1 ELSE 0
            \* ["'][^"']*["'] at v
            Quoted(v) ==
              IF v # 0 /\ v <= Len(s) /\ Char(s, v) \in Quotes
              THEN Closed(StarNot(s, v + 1, Quotes)) ELSE 0
            Path(c, o, p, v) ==
              [e |-> Alt(Quoted(v), Plus(s, L(s, v, "$."), PathChars)),
               c |-> c, o |-> o, p |-> p, v |-> v]
            Operator(c, o, p) == Path(c, o, p, S0(s, p))
            Column(c, o) == Operator(c, o, Opt(s, L(s, o, "->"), ">"))
            From(c) == Column(c, S0(s, c))
        IN  From(Plus(s, j, ColumnChars))

      JsonOperatorMatch(s, j) ==
        IF j <= Len(s) /\ Char(s, j) \in ColumnChars THEN JsonOperatorParse(s, j).e ELSE 0

      JsonOperatorRule(content, eng) ==
        LET s == eng.sql
            M(j) == JsonOperatorMatch(s, j)
            CB(j, e) ==
              LET Convert(m) ==
              LET match == SubSeq(s, j, e - 1)
                  column == SubSeq(s, j, m.c - 1)
                  operator == SubSeq(s, m.o, m.p - 1)
                  path == SubSeq(s, m.v, e - 1)
                  replacement ==
                    IF operator = "->"
                    THEN "JSON_EXTRACT(" \o column \o ", " \o path \o ")"
                    ELSE IF operator = "->>"
                    THEN "JSON_UNQUOTE(JSON_EXTRACT(" \o column \o ", " \o path \o "))"
                    ELSE match
              IN  With(replacement,
                       Fixed(getLineNumber(content, match), "warning", "compatibility",
                             "Converted JSON operator", match, replacement, TRUE))
              IN  Convert(JsonOperatorParse(s, j))
        IN  Apply(eng, ReplaceAll(s, [m \in Matches({<<j, M(j)>> : j \in (IF Includes(s, "->") THEN 1..Len(s) ELSE {})}) |->
                                         CB(m[1], m[2])]), "")
  IN  Step("jsonOperator", JsonOperatorRule(sqlContent, Eng))

CheckFulltext ==
  LET \* /FULLTEXT\s+(INDEX|KEY)\s+([\w`]+)?\s*\(([^)]+)\)(?:\s+WITH\s+PARSER\s+(\w+))?/gi ;
      \* the result is the record of the match: index type from t to u, name
      \* from n to m (empty when absent), columns from o to c, parser from w
      \* (0 when absent), end e (e = 0: no match)
      FulltextParse(s, j) ==
        LET Parser(t, u, n, m, o, c, e, w) ==
              [e |-> Alt(Plus(s, w, WordChars), e), t |-> t, u |-> u, n |-> n,
               m |-> m, o |-> o, c |-> c,
               w |-> IF Plus(s, w, WordChars) # 0 THEN w ELSE 0]
            Close(t, u, n, m, o, c, e) ==
              Parser(t, u, n, m, o, c, e,
                     S1(s, K(s, S1(s, K(s, S1(s, e), "with")), "parser")))
            Columns(t, u, n, m, o, c) == Close(t, u, n, m, o, c, L(s, c, ")"))
            Open(t, u, n, m, o) == Columns(t, u, n, m, o, PlusNot(s, o, {")"}))
            NameEnd(t, u, n, m) == Open(t, u, n, m, L(s, S0(s, m), "("))
            Name(t, u, n) == NameEnd(t, u, n, Star(s, n, WordChars \cup {BT}))
            Type(t, u) == Name(t, u, S1(s, u))
            From(t) == Type(t, Alt(K(s, t, "index"), K(s, t, "key")))
        IN  From(S1(s, j + 8))

      FulltextMatch(s, j) == IF KwAt(s, j, "fulltext") THEN FulltextParse(s, j).e ELSE 0

      FulltextRule(content, eng) ==
        LET s == eng.sql
            M(j) == FulltextMatch(s, j)
            CB(j, e) ==
              LET Review(m) ==
              LET match == SubSeq(s, j, e - 1)
                  indexType == SubSeq(s, m.t, m.u - 1)
                  indexName == SubSeq(s, m.n, m.m - 1)
                  columns == SubSeq(s, m.o, m.c - 1)
                  parser == IF m.w = 0 THEN "" ELSE SubSeq(s, m.w, e - 1)
                  replacement == "FULLTEXT " \o indexType \o " " \o indexName \o " ("
                                 \o columns \o ") -- Parser " \o parser
                                 \o " may not be available"
              IN  IF parser # "" /\ ToLowerCase(parser) # "ngram"
                  THEN With(replacement,
                            Fixed(getLineNumber(content, match), "warning", "compatibility",
                                  "FULLTEXT index parser may not be available", match,
                                  replacement, TRUE))
                  ELSE With(match,
                            Flagged(getLineNumber(content, match), "info", "compatibility",
                                    "FULLTEXT index syntax is compatible", match))
              IN  Review(FulltextParse(s, j))
        IN  Apply(eng, ReplaceAll(s, [m \in Matches({<<j, M(j)>> : j \in 1..Len(s)}) |->
                                         CB(m[1], m[2])]), "")
  IN  Step("fulltext", FulltextRule(sqlContent, Eng))

DetectPartitions ==
  LET \* (RANGE|LIST|HASH|KEY) at p
      PartitionType(s, p) ==
        IF K(s, p, "range") # 0 THEN K(s, p, "range")
        ELSE IF K(s, p, "list") # 0 THEN K(s, p, "list")
        ELSE IF K(s, p, "hash") # 0 THEN K(s, p, "hash")
        ELSE K(s, p, "key")

      \* /PARTITION\s+BY\s+(RANGE|LIST|HASH|KEY)\s*\(([^)]+)\)(?:\s+PARTITIONS\s+(\d+))?/gi
      PartitionMatch(s, j) ==
        IF KwAt(s, j, "partition")
        THEN LET t == PartitionType(s, S1(s, K(s, S1(s, j + 9), "by")))
                 e == L(s, PlusNot(s, L(s, S0(s, t), "("), {")"}), ")")
                 n == Plus(s, S1(s, K(s, S1(s, e), "partitions")), Digits)
             IN  IF n # 0 THEN n ELSE e
        ELSE 0

      PartitionRule(content, eng) ==
        LET s == eng.sql
            M(j) == PartitionMatch(s, j)
            CB(j, e) ==
              LET match == SubSeq(s, j, e - 1)
              IN  With(match,
                       Flagged(getLineNumber(content, match), "info", "compatibility",
                               "Table partitioning detected", match))
        IN  Apply(eng, ReplaceAll(s, [m \in Matches({<<j, M(j)>> : j \in 1..Len(s)}) |->
                                         CB(m[1], m[2])]), "")
  IN  Step("partition", PartitionRule(sqlContent, Eng))

DetectJsonLines ==
  LET \* line.toLowerCase().includes('json')
      JsonLineTest(line) == IncludesI(line, "json")

      JsonLineRule(content, eng) ==
        LET lines == Split(content)
            hits  == {index \in 1..Len(lines) : JsonLineTest(lines[index])}
        IN
        Apply(eng,
              [text |-> eng.sql,
               issues |-> FlagLines(lines, 1, hits, "warning",
                                    "JSON column type detected")],
              "")
  IN  Step("jsonLine", JsonLineRule(sqlContent, Eng))

VerifyAutoIncrement ==
  LET \* /AUTO_INCREMENT\s*=\s*(\d+)/gi
      AutoIncrementMatch(s, j) ==
        IF KwAt(s, j, "auto_increment")
        THEN Plus(s, S0(s, L(s, S0(s, j + 14), "=")), Digits)
        ELSE 0

      AutoIncrementRule(content, eng) ==
        LET s == eng.sql
            M(j) == AutoIncrementMatch(s, j)
            CB(j, e) ==
              LET match == SubSeq(s, j, e - 1)
              IN  With(match,
                       Fixed(getLineNumber(content, match), "info", "compatibility",
                             "AUTO_INCREMENT value is compatible", match, match, TRUE))
        IN  Apply(eng, ReplaceAll(s, [m \in Matches({<<j, M(j)>> : j \in 1..Len(s)}) |->
                                         CB(m[1], m[2])]), "")
  IN  Step("autoIncrement", AutoIncrementRule(sqlContent, Eng))

VerifyTimestamp ==
  LET \* /timestamp\s+NOT\s+NULL\s+DEFAULT\s+CURRENT_TIMESTAMP\s+ON\s+UPDATE\s+CURRENT_TIMESTAMP/gi
      TimestampMatch(s, j) ==
        IF KwAt(s, j, "timestamp")
        THEN K(s, S1(s, K(s, S1(s, K(s, S1(s, K(s, S1(s, K(s, S1(s, K(s, S1(s, K(s,
               S1(s, j + 9), "not")), "null")), "default")), "current_timestamp")),
               "on")), "update")), "current_timestamp")
        ELSE 0

      TimestampRule(content, eng) ==
        LET s == eng.sql
            M(j) == TimestampMatch(s, j)
            CB(j, e) ==
              LET match == SubSeq(s, j, e - 1)
                  replacement ==
                    "timestamp NOT NULL DEFAULT CURRENT_TIMESTAMP ON UPDATE CURRENT_TIMESTAMP"
              IN  With(replacement,
                       Fixed(getLineNumber(content, match), "info", "compatibility",
                             "Verified timestamp with CURRENT_TIMESTAMP", match,
                             replacement, TRUE))
        IN  Apply(eng, ReplaceAll(s, [m \in Matches({<<j, M(j)>> : j \in 1..Len(s)}) |->
                                         CB(m[1], m[2])]), "optimizationsCount")
  IN  Step("timestamp", TimestampRule(sqlContent, Eng))

KeepDisableKeys ==
  LET DisableKeysRule(content, eng) ==
        KeysRule(content, eng, "disable", "DISABLE KEYS statement maintained")
  IN  Step("disableKeys", DisableKeysRule(sqlContent, Eng))

KeepEnableKeys ==
  LET EnableKeysRule(content, eng) ==
        KeysRule(content, eng, "enable", "ENABLE KEYS statement maintained")
  IN  Step("enableKeys", EnableKeysRule(sqlContent, Eng))

UpgradeCharsetUtf8 ==
  LET \* /\bCHARSET\s*=?\s*utf8\b(?!mb4)/gi
      CharsetUtf8Match(s, j) ==
        IF KwAt(s, j, "charset") /\ WordBoundary(s, j)
        THEN LET e == B(s, K(s, S0(s, Opt(s, S0(s, j + 7), "=")), "utf8"))
             IN  IF e # 0 /\ ~KwAt(s, e, "mb4") THEN e ELSE 0
        ELSE 0

      \* match.replace(/utf8\b/, 'utf8mb4'): the first utf8 in lower case that
      \* ends at a word boundary
      UpgradeUtf8(match) ==
        LET at == {i \in 1..Len(match) :
                     LitAt(match, i, "utf8") /\ WordBoundary(match, i + 4)}
        IN  IF at = {} THEN match
            ELSE SubSeq(match, 1, Min(at) + 3) \o "mb4"
                 \o SubSeq(match, Min(at) + 4, Len(match))

      CharsetUtf8Rule(content, eng) ==
        LET s == eng.sql
            M(j) == CharsetUtf8Match(s, j)
            CB(j, e) ==
              LET match == SubSeq(s, j, e - 1)
                  replacement == UpgradeUtf8(match)
              IN  With(replacement,
                       Fixed(getLineNumber(content, match), "warning", "compatibility",
                             "Upgraded utf8 to utf8mb4", match, replacement, TRUE))
        IN  Apply(eng, ReplaceAll(s, [m \in Matches({<<j, M(j)>> : j \in 1..Len(s)}) |->
                                         CB(m[1], m[2])]), "warningsCount")
  IN  Step("charsetUtf8", CharsetUtf8Rule(sqlContent, Eng))

UpgradeCollateGeneral ==
  LET CollateGeneralRule(content, eng) ==
        CollateRule(content, eng, "utf8_general_ci", "COLLATE utf8mb4_general_ci",
                    "Updated collation to utf8mb4_general_ci")
  IN  Step("collateGeneral", CollateGeneralRule(sqlContent, Eng))

NormalizePlainKey ==
  LET LowerToUpper == [a |-> "A", b |-> "B", c |-> "C", d |-> "D", e |-> "E",
                       f |-> "F", g |-> "G", h |-> "H", i |-> "I", j |-> "J",
                       k |-> "K", l |-> "L", m |-> "M", n |-> "N", o |-> "O",
                       p |-> "P", q |-> "Q", r |-> "R", s |-> "S", t |-> "T",
                       u |-> "U", v |-> "V", w |-> "W", x |-> "X", y |-> "Y",
                       z |-> "Z"]

      UpperChar(c) == IF c \in DOMAIN LowerToUpper THEN LowerToUpper[c] ELSE c

      \* String.prototype.toUpperCase
      RECURSIVE ToUpperCase(_)
      ToUpperCase(text) ==
        IF Len(text) <= 1 THEN UpperChar(text)
        ELSE ToUpperCase(SubSeq(text, 1, Len(text) \div 2))
             \o ToUpperCase(SubSeq(text, Len(text) \div 2 + 1, Len(text)))

      \* (PRIMARY\s+KEY|UNIQUE\s+KEY|FULLTEXT\s+KEY|SPATIAL\s+KEY|KEY) at p
      KeyType(s, p) ==
        LET Two(word) == K(s, S1(s, K(s, p, word)), "key")
        IN  Alt(Two("primary"),
                Alt(Two("unique"),
                    Alt(Two("fulltext"), Alt(Two("spatial"), K(s, p, "key")))))

      \* /^\s*(PRIMARY\s+KEY|...|KEY)\s+([^\s(]*)\s*\(([^)]+)\)/gim ; the result
      \* is the record of the match: key type from t to u, name from n to m,
      \* columns from o to c, end e (e = 0: no match)
      PlainKeyParse(s, j) ==
        LET Columns(t, u, n, m, o, c) ==
              [e |-> L(s, c, ")"), t |-> t, u |-> u, n |-> n, m |-> m, o |-> o, c |-> c]
            Open(t, u, n, m, o) == Columns(t, u, n, m, o, PlusNot(s, o, {")"}))
            NameEnd(t, u, n, m) == Open(t, u, n, m, L(s, S0(s, m), "("))
            Name(t, u, n) == NameEnd(t, u, n, StarNot(s, n, Space \cup {"("}))
            Type(t, u) == Name(t, u, S1(s, u))
            From(t) == Type(t, KeyType(s, t))
        IN  From(S0(s, j))

      PlainKeyMatch(s, j) == IF LineStart(s, j) THEN PlainKeyParse(s, j).e ELSE 0

      \* keyName.replace(/[`'"]/g, '')
      RECURSIVE StripQuotes(_)
      StripQuotes(name) ==
        IF name = "" THEN ""
        ELSE (IF Head(name) \in {BT, "'", DQ} THEN "" ELSE SubSeq(name, 1, 1))
             \o StripQuotes(Tail(name))

      PlainKeyRule(content, eng) ==
        LET s == eng.sql
            M(j) == PlainKeyMatch(s, j)
            CB(j, e) ==
              LET Normalize(m) ==
              LET match == SubSeq(s, j, e - 1)
                  keyType == SubSeq(s, m.t, m.u - 1)
                  keyName == SubSeq(s, m.n, m.m - 1)
                  columns == SubSeq(s, m.o, m.c - 1)
                  replacement == "  KEY " \o BT \o StripQuotes(keyName) \o BT \o " ("
                                 \o columns \o ")"
              IN  IF ToUpperCase(keyType) # "KEY" THEN Keep(match)
                  ELSE IF ~InCreateTable(s, j, 500) THEN Keep(match)
                  ELSE With(replacement,
                            Fixed(getLineNumber(content, match), "info", "compatibility",
                                  "Ensured plain KEY syntax is MariaDB compatible",
                                  Trim(match), Trim(replacement), TRUE))
              IN  Normalize(PlainKeyParse(s, j))
        IN  Apply(eng, ReplaceAll(s, [m \in Matches({<<j, M(j)>> : j \in 1..Len(s)}) |->
                                         CB(m[1], m[2])]), "optimizationsCount")
  IN  Step("plainKey", PlainKeyRule(sqlContent, Eng))

UpgradeCharacterSetUtf8 ==
  LET \* /CHARACTER\s+SET\s+utf8\s+COLLATE\s+utf8_general_ci/gi
      CharacterSetUtf8Match(s, j) ==
        IF KwAt(s, j, "character")
        THEN K(s, S1(s, K(s, S1(s, K(s, S1(s, K(s, S1(s, j + 9), "set")), "utf8")),
               "collate")), "utf8_general_ci")
        ELSE 0

      CharacterSetUtf8Rule(content, eng) ==
        LET s == eng.sql
            M(j) == CharacterSetUtf8Match(s, j)
            CB(j, e) ==
              LET match == SubSeq(s, j, e - 1)
                  replacement == "CHARACTER SET utf8mb4 COLLATE utf8mb4_general_ci"
              IN  With(replacement,
                       Fixed(getLineNumber(content, match), "warning", "compatibility",
                             "Upgraded character set to utf8mb4", match, replacement, TRUE))
        IN  Apply(eng, ReplaceAll(s, [m \in Matches({<<j, M(j)>> : j \in 1..Len(s)}) |->
                                         CB(m[1], m[2])]), "")
  IN  Step("characterSetUtf8", CharacterSetUtf8Rule(sqlContent, Eng))

FixDefaultCharsetUtf8 ==
  LET \* /DEFAULT\s+CHARSET\s*=\s*utf8\b(?!\s*mb4)/gi
      DefaultCharsetUtf8Match(s, j) ==
        LET e == B(s, K(s, DefaultCharsetName(s, j), "utf8"))
        IN  IF e # 0 /\ K(s, S0(s, e), "mb4") = 0 THEN e ELSE 0

      DefaultCharsetUtf8Rule(content, eng) ==
        LET s == eng.sql
            M(j) == DefaultCharsetUtf8Match(s, j)
            CB(j, e) ==
              LET match == SubSeq(s, j, e - 1)
                  replacement == "DEFAULT CHARSET=utf8mb4"
              IN  With(replacement,
                       Fixed(getLineNumber(content, match), "warning", "compatibility",
                             "Fixed charset to utf8mb4", match, replacement, TRUE))
        IN  Apply(eng, ReplaceAll(s, [m \in Matches({<<j, M(j)>> : j \in 1..Len(s)}) |->
                                         CB(m[1], m[2])]), "")
  IN  Step("defaultCharsetUtf8", DefaultCharsetUtf8Rule(sqlContent, Eng))

CheckIndexLength ==
  LET IndexLengthRule(content, eng) ==
        LET s == eng.sql
            M(j) == IndexMatch(s, j)
            CB(j, e) ==
              LET match == SubSeq(s, j, e - 1)
                  columns == SubSeq(s, IndexColumns(s, j), e - 2)
              IN  IF ~InCreateTable(s, j, 500) THEN Keep(match)
                  ELSE IF HasLargeVarchar(columns)
                  THEN With(match,
                            Flagged(getLineNumber(content, match), "error", "compatibility",
                                    "INDEX on large VARCHAR detected", match))
                  ELSE Keep(match)
        IN  Apply(eng, ReplaceAll(s, [m \in Matches({<<j, M(j)>> : j \in 1..Len(s)}) |->
                                         CB(m[1], m[2])]), "")
  IN  Step("indexLength", IndexLengthRule(sqlContent, Eng))

AddRowFormat ==
  LET \* /ROW_FORMAT\s*=/i.test(text)
      HasRowFormat(text) ==
        \E i \in 1..Len(text) :
           KwAt(text, i, "row_format") /\ L(text, S0(text, i + 10), "=") # 0

      \* /(CREATE\s+TABLE\s+[\w`\.]+\s*\([^;]+)\)\s*(ENGINE\s*=\s*InnoDB)([^;]*);/gi ;
      \* the result is the record of the match: group 1 ends at c (the last )
      \* before the first ; that is followed by the engine clause), the engine
      \* clause runs from g to h, the first ; is at r, end e (e = 0: no match)
      RowFormatParse(s, j) ==
        LET Close(b, r, c) ==
              IF b = 0 \/ r > Len(s) \/ c = 0 THEN [e |-> 0]
              ELSE [e |-> r + 1, c |-> c, g |-> S0(s, c + 1),
                    h |-> EngineMatch(s, S0(s, c + 1)), r |-> r]
            Body(b, r) ==
              Close(b, r, Greatest({c \in (b + 1)..(r - 1) :
                                      /\ Char(s, c) = ")"
                                      /\ EngineMatch(s, S0(s, c + 1)) # 0}))
            Open(b) == Body(b, StarNot(s, b, {";"}))
        IN  Open(L(s, S0(s, Plus(s, S1(s, K(s, S1(s, j + 6), "table")), ColumnChars)),
                   "("))

      RowFormatMatch(s, j) == IF KwAt(s, j, "create") THEN RowFormatParse(s, j).e ELSE 0

      RowFormatRule(content, eng) ==
        LET s == eng.sql
            M(j) == RowFormatMatch(s, j)
            CB(j, e) ==
              LET Format(m) ==
              LET match == SubSeq(s, j, e - 1)
                  tableStart == SubSeq(s, j, m.c - 1)
                  engine == SubSeq(s, m.g, m.h - 1)
                  tableEnd == SubSeq(s, m.h, m.r - 1)
                  replacement == tableStart \o ") " \o engine \o " ROW_FORMAT=DYNAMIC"
                                 \o tableEnd \o ";"
              IN  IF IncludesI(match, "utf8mb4") /\ HasLargeVarchar(match)
                     /\ ~HasRowFormat(match)
                  THEN With(replacement,
                            Fixed(getLineNumber(content, match), "warning", "compatibility",
                                  "Added ROW_FORMAT=DYNAMIC", match, replacement, TRUE))
                  ELSE Keep(match)
              IN  Format(RowFormatParse(s, j))
        IN  Apply(eng, ReplaceAll(s, [m \in Matches({<<j, M(j)>> : j \in 1..Len(s)}) |->
                                         CB(m[1], m[2])]), "")
  IN  Step("rowFormat", RowFormatRule(sqlContent, Eng))

ConvertJsonColumns ==
  LET JsonColumnRule(content, eng) ==
        LET s == eng.sql
            M(j) == JsonColumnMatch(s, j)
            CB(j, e) ==
              LET match == SubSeq(s, j, e - 1)
                  columnName == SubSeq(s, j, QuotedName(s, j) - 1)
                  trailing == SubSeq(s, JsonColumnType(s, j), e - 1)
                  replacement == columnName \o " longtext COLLATE utf8mb4_bin" \o trailing
              IN  IF ~InCreateTable(s, j, 300) THEN Keep(match)
                  ELSE With(replacement,
                            Fixed(getLineNumber(content, match), "info", "compatibility",
                                  "Converted JSON column to longtext", match,
                                  replacement, TRUE))
        IN  Apply(eng, ReplaceAll(s, [m \in Matches({<<j, M(j)>> : j \in 1..Len(s)}) |->
                                         CB(m[1], m[2])]), "optimizationsCount")
  IN  Step("jsonColumn", JsonColumnRule(sqlContent, Eng))

FixTextFields ==
  LET TextFieldMatch(s, j) ==
        IF j <= Len(s) /\ LowerChar(Char(s, j)) \in {"t", "l", "m"}
        THEN TextFieldParse(s, j).e ELSE 0

      TextFieldRule(content, eng) ==
        LET s == eng.sql
            M(j) == TextFieldMatch(s, j)
            CB(j, e) ==
              LET match == SubSeq(s, j, e - 1)
                  m == TextFieldParse(s, j)
                  textType == SubSeq(s, j, m.u - 1)
                  charsetPart == SubSeq(s, m.u, m.p - 1)
                  replacement == textType \o " CHARACTER SET utf8mb4 COLLATE utf8mb4_general_ci"
              IN  IF ~InCreateTable(s, j, 300) THEN Keep(match)
                  ELSE IF charsetPart = "" \/ ~Includes(charsetPart, "utf8mb4")
                  THEN With(replacement,
                            Fixed(getLineNumber(content, match), "info", "optimization",
                                  "Ensured text field uses utf8mb4", match, replacement, TRUE))
                  ELSE Keep(match)
        IN  Apply(eng, ReplaceAll(s, [m \in Matches({<<j, M(j)>> : j \in (WordStarts(s))}) |->
                                         CB(m[1], m[2])]), "optimizationsCount")
  IN  Step("textField", TextFieldRule(sqlContent, Eng))

FixVarcharFields ==
  LET VarcharRule(content, eng) ==
        LET s == eng.sql
            M(j) == VarcharMatch(s, j)
            CB(j, e) ==
              LET match == SubSeq(s, j, e - 1)
                  length == SubSeq(s, j + 8, e - 2)
                  replacement == "varchar(" \o length
                                 \o ") CHARACTER SET utf8mb4 COLLATE utf8mb4_general_ci"
              IN  IF ~InCreateTable(s, j, 300) THEN Keep(match)
                  ELSE With(replacement,
                            Fixed(getLineNumber(content, match), "info", "optimization",
                                  "Enhanced varchar field", match, replacement, TRUE))
        IN  Apply(eng, ReplaceAll(s, [m \in Matches({<<j, M(j)>> : j \in 1..Len(s)}) |->
                                         CB(m[1], m[2])]), "optimizationsCount")
  IN  Step("varcharField", VarcharRule(sqlContent, Eng))

UpgradeCollateUnicode ==
  LET CollateUnicodeRule(content, eng) ==
        CollateRule(content, eng, "utf8_unicode_ci", "COLLATE utf8mb4_unicode_ci",
                    "Updated collation to utf8mb4_unicode_ci")
  IN  Step("collateUnicode", CollateUnicodeRule(sqlContent, Eng))

CollapseTripleNewlines ==
  LET \* /\n\s*\n\s*\n/g : from a line feed to the last line feed of its blank
      \* run, when the run holds at least three
      TripleNewlineMatch(s, j) ==
        IF LitAt(s, j, NL) /\ Cardinality(RunNewlines(s, j)) >= 3
        THEN Greatest(RunNewlines(s, j)) + 1 ELSE 0

      TripleNewlineRule(content, eng) ==
        LET s == eng.sql
            M(j) == TripleNewlineMatch(s, j)
            CB(j, e) == Keep(NL \o NL)
        IN  Apply(eng, ReplaceAll(s, [m \in Matches({<<j, M(j)>> : j \in 1..Len(s)}) |->
                                         CB(m[1], m[2])]), "")
  IN  Step("tripleNewlines", TripleNewlineRule(sqlContent, Eng))

RemoveEmptyLines ==
  LET \* /^\s*\n/gm : from a line start to the last line feed of its blank run
      EmptyLineMatch(s, j) ==
        IF LineStart(s, j) /\ RunNewlines(s, j) # {}
        THEN Greatest(RunNewlines(s, j)) + 1 ELSE 0

      EmptyLineRule(content, eng) ==
        LET s == eng.sql
            M(j) == EmptyLineMatch(s, j)
            CB(j, e) == Keep("")
        IN  Apply(eng, ReplaceAll(s, [m \in Matches({<<j, M(j)>> : j \in 1..Len(s)}) |->
                                         CB(m[1], m[2])]), "")
  IN  Step("emptyLines", EmptyLineRule(sqlContent, Eng))

AddHeader ==
  LET HeaderIssue ==
        Fixed(1, "info", "optimization", "Added MariaDB-compatible SQL header",
              "-- File beginning", "-- MariaDB header added", TRUE)

      \* if (!convertedSQL.includes('SET NAMES utf8mb4')) { ... }
      HeaderRule(content, eng) ==
        IF Includes(eng.sql, "SET NAMES utf8mb4") THEN eng
        ELSE Apply(eng, [text |-> header \o eng.sql, issues |-> <<HeaderIssue>>],
                   "optimizationsCount")
  IN  Step("header", HeaderRule(sqlContent, Eng))

AddCommit ==
  LET commitText == "\n\nCOMMIT;\n"

      CommitIssue(text) ==
        Fixed(LineCount(text), "info", "optimization",
              "Added COMMIT statement at end of file",
              "-- File end", "COMMIT;", TRUE)

      \* if (!convertedSQL.toLowerCase().includes('commit')) { ... }
      CommitRule(content, eng) ==
        IF IncludesI(eng.sql, "commit") THEN eng
        ELSE Apply(eng, [text |-> eng.sql \o commitText,
                         issues |-> <<CommitIssue(eng.sql \o commitText)>>],
                   "optimizationsCount")
  IN  Step("commit", CommitRule(sqlContent, Eng))

\* stats.totalIssues = issues.length; return { convertedSQL, issues, stats }
Return ==
  LET \* stats.totalIssues = issues.length
      FinalStats(eng) ==
        [eng EXCEPT !.stats = [eng.stats EXCEPT !.totalIssues = Len(eng.issues)]]
  IN  /\ pc = "return"
      /\ stats' = FinalStats(Eng).stats
      /\ pc' = "done"
      /\ results' = results \cup {<<sqlContent, FinalStats(Eng)>>}
      /\ UNCHANGED <<parts, sqlContent, convertedSQL, issues, pass>>
      /\ UNCHANGED <<conversionJobs, conversionIssues, conversionStats, handlers>>

\* the returned convertedSQL is converted again
Reconvert ==
  /\ pc = "done"
  /\ pass < MaxPasses
  /\ sqlContent' = convertedSQL
  /\ issues' = <<>>
  /\ stats' = NoStats
  /\ pc' = Pipeline[1]
  /\ pass' = pass + 1
  /\ UNCHANGED <<parts, convertedSQL, results>>
  /\ UNCHANGED <<conversionJobs, conversionIssues, conversionStats, handlers>>

\* a call that would start from the accumulators of the call before it
ConvertAgainStale ==
  /\ pc = "done"
  /\ pass < MaxPasses
  /\ \E r \in results :
       /\ sqlContent' = r[1]
       /\ convertedSQL' = r[1]
  /\ pc' = Pipeline[1]
  /\ pass' = pass + 1
  /\ UNCHANGED <<parts, issues, stats, results>>
  /\ UNCHANGED <<conversionJobs, conversionIssues, conversionStats, handlers>>

\* convertMySQLToMariaDB is called again on an input it was given before;
\* issues, convertedSQL and stats are locals initialised at entry
ConvertAgain ==
  /\ pc = "done"
  /\ pass < MaxPasses
  /\ \E r \in results :
       /\ sqlContent' = r[1]
       /\ convertedSQL' = r[1]
  /\ issues' = <<>>
  /\ stats' = NoStats
  /\ pc' = Pipeline[1]
  /\ pass' = pass + 1
  /\ UNCHANGED <<parts, results>>
  /\ UNCHANGED <<conversionJobs, conversionIssues, conversionStats, handlers>>

Next ==
  \/ ReplaceCollations \/ FixSetNames \/ RemoveDefiner
  \/ RemoveDumpingComments \/ TriageVersionComments \/ CheckIfNotExists
  \/ ConvertLatin1 \/ RemoveUsingBtree \/ RemoveLocalInfile
  \/ FixForeignKeyChecks \/ CleanSqlMode \/ CommentLockTables
  \/ CommentUnlockTables \/ FixDefaultCharacterSet \/ FixDefaultCharset
  \/ VerifyEngine \/ SimplifyInt \/ DetectCte \/ DetectWindowFunctions
  \/ DetectGeneratedColumns \/ RemoveInvisible \/ DetectCheckConstraints
  \/ DetectJsonFunctions \/ ConvertJsonOperators \/ CheckFulltext
  \/ DetectPartitions \/ DetectJsonLines \/ VerifyAutoIncrement
  \/ VerifyTimestamp \/ KeepDisableKeys \/ KeepEnableKeys
  \/ UpgradeCharsetUtf8 \/ UpgradeCollateGeneral \/ NormalizePlainKey
  \/ UpgradeCharacterSetUtf8 \/ FixDefaultCharsetUtf8 \/ CheckIndexLength
  \/ AddRowFormat \/ ConvertJsonColumns \/ FixTextFields \/ FixVarcharFields
  \/ UpgradeCollateUnicode \/ CollapseTripleNewlines \/ RemoveEmptyLines
  \/ AddHeader \/ AddCommit \/ Return \/ Reconvert \/ ConvertAgain

\* the fragments of the general runs: statements that fire rules of every
\* kind, an input no rule touches, and malformed text
GeneralPool ==
  { "SELECT 1;\n",
    "SET NAMES utf8mb4;\nCOMMIT;\n",
    "SET NAMES utf8;\n",
    "CREATE TABLE ~t~ (\n  ~id~ int(11) NOT NULL,\n  ~n~ varchar(255) COLLATE utf8mb4_0900_ai_ci,\n  ~h~ int INVISIBLE,\n  KEY ~k~ (~n~) USING BTREE\n) ENGINE=InnoDB DEFAULT CHARSET=utf8;\n",
    "LOCK TABLES ~t~ WRITE;\nSELECT RANK() OVER (w), d->'$.a' FROM ~t~;\n\n\n/*!40101 SET @a=@@b */ /*!50001 unterminated (\n" }

Init == Start(GeneralPool)

Spec == Init /\ [][Next]_vars

\* the first rule of convertMySQLToMariaDB in lib/sql-converter.ts, the
\* engine the server routes import; pc then stands before that function's
\* SET NAMES rule, and its later rules are not part of this model
LibReplaceCollations ==
  LET Lib(r) ==
        /\ convertedSQL' = r.sql
        /\ issues' = r.issues
        /\ stats' = r.stats
  IN  /\ pc = "collation"
      /\ Lib(CollationRule(sqlContent, Eng, libCollationMap, "warningsCount",
                           "Replaced MySQL 8.0 collation"))
      /\ pc' = "libSetNames"
      /\ UNCHANGED <<parts, sqlContent, pass, results>>
      /\ UNCHANGED <<conversionJobs, conversionIssues, conversionStats, handlers>>

\* the version comment rule of convertMySQLToMariaDB in lib/sql-converter.ts;
\* the rules between the collation rule and this one (SET NAMES utf8, DEFINER,
\* local_infile, FOREIGN_KEY_CHECKS, SQL_MODE, LOCK and UNLOCK TABLES) find
\* no match in an input of LibPool
LibUnwrapVersionComments ==
  LET Lib(r) ==
        /\ convertedSQL' = r.sql
        /\ issues' = r.issues
        /\ stats' = r.stats
      \* /\/\*!(\d+)\s+([^*]+)\*\//g ; the result is the record of the match:
      \* group 2 from c to d, end e (e = 0: no match); when a * follows the
      \* white space, group 2 is the last white space character
      LibVersionCommentParse(s, j) ==
        LET Close(c, d) == [c |-> c, d |-> d, e |-> L(s, d, "*/")]
            Body(p, q) ==
              IF q # 0 /\ LitAt(s, q, "*") /\ q - p >= 2 THEN Close(q - 1, q)
              ELSE Close(q, PlusNot(s, q, {"*"}))
            Version(p) == Body(p, S1(s, p))
        IN  Version(Plus(s, L(s, j, "/*!"), Digits))
      LibVersionCommentRule(content, eng) ==
        LET s == eng.sql
            M(j) == LibVersionCommentParse(s, j).e
            CB(j, e) ==
              LET match == SubSeq(s, j, e - 1)
                  m == LibVersionCommentParse(s, j)
                  trimmed == Trim(SubSeq(s, m.c, m.d - 1))
              IN  With(trimmed,
                       Fixed(libGetLineNumber(content, match), "warning", "syntax",
                             "Converted MySQL version-specific comment", match, trimmed, TRUE))
        IN  Apply(eng, ReplaceAll(s, [m \in Matches({<<j, M(j)>> : j \in 1..Len(s)}) |->
                                         CB(m[1], m[2])]), "warningsCount")
  IN  /\ pc = "libSetNames"
      /\ Lib(LibVersionCommentRule(sqlContent, Eng))
      /\ pc' = "libDefaultCharacterSet"
      /\ UNCHANGED <<parts, sqlContent, pass, results>>
      /\ UNCHANGED <<conversionJobs, conversionIssues, conversionStats, handlers>>

\* collation names as whole tokens, in other letter case, extended by word
\* characters, and glued to each other, and a conditional comment
LibPool ==
  { "COLLATE utf8mb4_0900_as_cs",
    "/*!40101 SET NAMES utf8mb4 */;\n",
    " COLLATE utf8mb4_0900_ai_ci,\n",
    "utf8mb4_0900_ai_ci_extra ",
    "UTF8MB4_0900_AS_CS;\n",
    "_x ",
    "x",
    " varchar(9) " }

LibSpec == Start(LibPool) /\ [][LibReplaceCollations \/ LibUnwrapVersionComments]_vars

\* columns declared with case-sensitive, binary and case-insensitive
\* collations
CollationPool ==
  { "CREATE TABLE ~p~ (\n  ~code~ varchar(50) COLLATE utf8mb4_0900_as_cs,\n  ~note~ text COLLATE utf8mb4_0900_as_cs\n);\n",
    "CREATE TABLE ~q~ (\n  ~c~ varchar(50) COLLATE utf8mb4_bin NOT NULL\n);\n",
    "CREATE TABLE ~r~ (\n  ~n~ varchar(20) COLLATE utf8mb4_0900_ai_ci\n);\n" }

CollationSpec == Start(CollationPool) /\ [][Next]_vars

\* INSERT statements whose literals look like DDL, alone and after other
\* statements
InsertPool ==
  { "CREATE TABLE ~t~ (\n  ~c~ int\n);\n",
    "INSERT INTO ~t~ (~c~) VALUES ('varchar(10) is a string');\n",
    "INSERT INTO ~t~ (~c~) VALUES ('a text COLLATE utf8_general_ci');\n",
    "SELECT 1;\n" }

InsertSpec == Start(InsertPool) /\ [][Next]_vars

\* DEFINER clauses as mysqldump writes them for routines, triggers and views
DefinerPool ==
  { "CREATE DEFINER=~root~@~localhost~ PROCEDURE ~p~()\nSELECT 1;\n",
    "/*!50003 CREATE*/ /*!50017 DEFINER=~root~@~localhost~*/ /*!50003 TRIGGER ~g~ BEFORE INSERT ON ~t~ FOR EACH ROW SET @a = 1 */;\n",
    "CREATE DEFINER = 'admin'@'%' VIEW ~v~ AS SELECT 1;\n" }

DefinerSpec == Start(DefinerPool) /\ [][Next]_vars

\* INVISIBLE columns of several types, one column per line and on one line
InvisiblePool ==
  { "CREATE TABLE ~t~ (\n  ~a~ int,\n  ~h~ int INVISIBLE,\n  ~b~ int\n);\n",
    "CREATE TABLE ~u~ (\n  ~h~ decimal(10,2) INVISIBLE,\n  ~b~ int\n);\n",
    "CREATE TABLE ~v~ (~a~ int, ~h~ int INVISIBLE, ~b~ int);\n" }

InvisibleSpec == Start(InvisiblePool) /\ [][Next]_vars

\* LOCK TABLES on one line and on two, UNLOCK TABLES, and a statement between
LockPool ==
  { "LOCK TABLES ~t~ WRITE;\n",
    "INSERT INTO ~t~ VALUES (1);\n",
    "UNLOCK TABLES;\n",
    "LOCK TABLES ~a~ WRITE,\n  ~b~ READ;\n" }

LockSpec == Start(LockPool) /\ [][Next]_vars

\* the statements of the guarded rules with CREATE TABLE, with ALTER TABLE,
\* with neither, and with CREATE TABLE more than 300 characters back
GuardPool ==
  { "CREATE TABLE ~t~ (\n  ~a~ varchar(10),\n  ~b~ text COLLATE utf8_general_ci,\n  ~c~ text CHARACTER SET utf8mb4,\n  KEY k (~a~)\n);\n",
    "SELECT 'varchar(5) text COLLATE utf8_general_ci';\nALTER TABLE ~t~ ADD ~d~ varchar(20) COLLATE utf8_unicode_ci, ADD ~e~ text;\n",
    "CREATE TABLE ~p~ (~x~ int);\n-- 0123456789012345678901234567890123456789012345678901234567890123456789012345678901234567890123456789012345678901234567890123456789012345678901234567890123456789012345678901234567890123456789012345678901234567890123456789012345678901234567890123456789012345678901234567890123456789012345678901234567890123456789\nSELECT 'varchar(7)';\n" }

GuardSpec == Start(GuardPool) /\ [][Next]_vars

\* the statements of the detection rules: a FULLTEXT index with a parser
\* clause, a CTE with JSON functions, a window function, a partitioned table
\* with a CHECK constraint and a generated column
FlagPool ==
  { "CREATE TABLE IF NOT EXISTS ~a~ (\n  ~b~ varchar(255),\n  FULLTEXT KEY ~f~ (~b~) WITH PARSER mecab,\n  KEY ~k~ (~b~)\n);\n",
    "WITH c (n) AS (SELECT JSON_ARRAY(1)) SELECT RANK() OVER (w) FROM c;\n",
    "CREATE TABLE ~p~ (\n  ~d~ json,\n  ~g~ int AS (1) STORED,\n  CONSTRAINT ~q~ CHECK (~g~ > 0),\n  FULLTEXT KEY ~n~ (~d~) WITH PARSER ngram\n) PARTITION BY HASH (~g~) PARTITIONS 2;\n" }

FlagSpec == Start(FlagPool) /\ [][Next]_vars

\* SET SQL_MODE statements: a MySQL-only mode between two others, a list of
\* the two MySQL-only modes alone, and a list without either
SqlModePool ==
  { "SET SQL_MODE='STRICT_TRANS_TABLES,NO_ENGINE_SUBSTITUTION,ANSI';\n",
    "SET sql_mode = \"NO_AUTO_CREATE_USER, NO_ENGINE_SUBSTITUTION\";\n",
    "SET SQL_MODE='NO_ZERO_DATE,,STRICT_ALL_TABLES,NO_AUTO_CREATE_USER';\nSELECT 1;\n" }

SqlModeSpec == Start(SqlModePool) /\ [][Next]_vars

\* tables with columns named like a text type
ColumnNamePool ==
  { "CREATE TABLE ~phone_note~ (\n  ~id~ int NOT NULL,\n  ~text~ text NOT NULL\n);\n",
    "CREATE TABLE ~n~ (~longtext~ varchar(5), ~b~ mediumtext);\n",
    "INSERT INTO ~phone_note~ (~id~, ~text~) VALUES (1, 'plain text');\n" }

ColumnNameSpec == Start(ColumnNamePool) /\ [][Next]_vars

---------------------------------------------------------------------------
(* The conversion jobs of the server: MemStorage and the routes            *)
(* A job id is the job's position in conversionJobs (randomUUID gives a     *)
(* fresh id); a nullable column holds <<>> for null and <<v>> for v; the    *)
(* id and timestamp columns of issues and stats are left out.               *)

MaxJobs == 1
MaxRequests == 2

\* convertMySQLToMariaDB of lib/sql-converter.ts on a content in which only
\* its collation rule finds a match (every content Upload offers): the rule,
\* then stats.totalIssues = issues.length and the return
LibConvert(content) ==
  LET Returned(eng) ==
        [convertedSQL |-> eng.sql, issues |-> eng.issues,
         stats |-> [eng.stats EXCEPT !.totalIssues = Len(eng.issues)]]
  IN  Returned(CollationRule(content, [sql |-> content, issues |-> <<>>, stats |-> NoStats],
                             libCollationMap, "warningsCount",
                             "Replaced MySQL 8.0 collation"))

\* the engine the routes import, on the contents of the uploaded files
convertMySQLToMariaDB ==
  [content \in {"", "SELECT 1;\n", "a utf8mb4_0900_ai_ci,\nb utf8mb4_0900_as_cs\n"} |->
     LibConvert(content)]

\* MemStorage.updateConversionJob: { ...job, ...updates }, nothing for an
\* unknown id
updateConversionJob(jobs, id, updates) ==
  IF id \notin DOMAIN jobs THEN jobs
  ELSE [jobs EXCEPT ![id] =
          [f \in DOMAIN jobs[id] |->
             IF f \in DOMAIN updates THEN updates[f] ELSE jobs[id][f]]]

\* POST /api/convert with a file: MemStorage.createConversionJob
Upload ==
  /\ Len(conversionJobs) < MaxJobs
  /\ \E originalname \in {"dump.sql", "backup", "shop.v2.sql"} :
     \E fileContent \in DOMAIN convertMySQLToMariaDB :
       conversionJobs' =
         Append(conversionJobs,
                [fileName |-> originalname, originalContent |-> fileContent,
                 status |-> "pending", convertedContent |-> <<>>,
                 completedAt |-> <<>>])
  /\ UNCHANGED <<conversionIssues, conversionStats, handlers>>
  /\ UNCHANGED <<parts, sqlContent, convertedSQL, issues, stats, pc, pass, results>>

\* POST /api/convert/:jobId/analyze. A handler runs from one await to the
\* next in one step; its pc names the call whose result it has received.
\* The calls on storage and the engine are awaited, so the steps of two
\* requests may alternate; a call may reject instead of taking effect.
Analyze ==
  LET Server(jobs, jobIssues, jobStats, hs) ==
        /\ conversionJobs' = jobs
        /\ conversionIssues' = jobIssues
        /\ conversionStats' = jobStats
        /\ handlers' = hs
        /\ UNCHANGED <<parts, sqlContent, convertedSQL, issues, stats, pc, pass, results>>
      At(h, pos) == [handlers EXCEPT ![h].pc = pos]
      IssuesOf(jobId) ==
        IF jobId \in DOMAIN conversionIssues THEN conversionIssues[jobId] ELSE <<>>
      \* storage.getConversionJob(jobId) is called as the request arrives
      Request(jobId) ==
        /\ Len(handlers) < MaxRequests
        /\ \E outcome \in {"got", "catch"} :
             Server(conversionJobs, conversionIssues, conversionStats,
                    Append(handlers,
                           [pc |-> outcome, jobId |-> jobId,
                            job |-> IF jobId \in DOMAIN conversionJobs
                                    THEN <<conversionJobs[jobId]>> ELSE <<>>,
                            conversionResult |-> <<>>, stored |-> 0]))
      \* if (!job) return res.status(404)
      NotFound(h) ==
        /\ handlers[h].pc = "got"
        /\ handlers[h].job = <<>>
        /\ Server(conversionJobs, conversionIssues, conversionStats, At(h, "notFound"))
      \* storage.updateConversionJob(jobId, { status: "analyzing" })
      Mark(h) ==
        /\ handlers[h].pc = "got"
        /\ handlers[h].job # <<>>
        /\ Server(updateConversionJob(conversionJobs, handlers[h].jobId,
                                      [status |-> "analyzing"]),
                  conversionIssues, conversionStats, At(h, "marked"))
      \* conversionResult = await convertMySQLToMariaDB(job.originalContent)
      Convert(h) ==
        /\ handlers[h].pc = "marked"
        /\ Server(conversionJobs, conversionIssues, conversionStats,
                  [handlers EXCEPT
                     ![h].pc = "converted",
                     ![h].conversionResult = <<convertMySQLToMariaDB[handlers[h].job[1].originalContent]>>])
      \* one turn of the loop: storage.createConversionIssue({ jobId, ...issue })
      StoreIssue(h) ==
        /\ handlers[h].pc = "converted"
        /\ handlers[h].stored < Len(handlers[h].conversionResult[1].issues)
        /\ Server(conversionJobs,
                  (handlers[h].jobId :>
                     Append(IssuesOf(handlers[h].jobId),
                            handlers[h].conversionResult[1].issues[handlers[h].stored + 1]))
                    @@ conversionIssues,
                  conversionStats,
                  [handlers EXCEPT ![h].stored = @ + 1])
      \* storage.createConversionStats({ jobId, ... })
      StoreStats(h) ==
        /\ handlers[h].pc = "converted"
        /\ handlers[h].stored = Len(handlers[h].conversionResult[1].issues)
        /\ Server(conversionJobs, conversionIssues,
                  (handlers[h].jobId :> handlers[h].conversionResult[1].stats) @@ conversionStats,
                  At(h, "stored"))
      \* storage.updateConversionJob(jobId, { status: "completed", ... })
      Complete(h) ==
        /\ handlers[h].pc = "stored"
        /\ Server(updateConversionJob(conversionJobs, handlers[h].jobId,
                    [status |-> "completed",
                     convertedContent |-> <<handlers[h].conversionResult[1].convertedSQL>>,
                     completedAt |-> <<"new Date()">>]),
                  conversionIssues, conversionStats, At(h, "updated"))
      \* res.json({ status: "completed", stats })
      Respond(h) ==
        /\ handlers[h].pc = "updated"
        /\ Server(conversionJobs, conversionIssues, conversionStats, At(h, "responded"))
      \* the call the handler makes next inside try rejects
      Throw(h) ==
        /\ \/ handlers[h].pc = "got" /\ handlers[h].job # <<>>
           \/ handlers[h].pc \in {"marked", "converted", "stored"}
        /\ Server(conversionJobs, conversionIssues, conversionStats, At(h, "catch"))
      \* catch: storage.updateConversionJob(req.params.jobId, { status: "failed" })
      Catch(h) ==
        /\ handlers[h].pc = "catch"
        /\ Server(updateConversionJob(conversionJobs, handlers[h].jobId,
                                      [status |-> "failed"]),
                  conversionIssues, conversionStats, At(h, "caught"))
      \* res.status(500).json(...)
      Fail(h) ==
        /\ handlers[h].pc = "caught"
        /\ Server(conversionJobs, conversionIssues, conversionStats, At(h, "failed"))
      \* the call inside catch rejects: the handler's promise rejects, and
      \* nothing else is done for the request
      Reject(h) ==
        /\ handlers[h].pc = "catch"
        /\ Server(conversionJobs, conversionIssues, conversionStats, At(h, "rejected"))
  IN  \/ \E jobId \in 1..MaxJobs : Request(jobId)
      \/ \E h \in DOMAIN handlers : NotFound(h)
      \/ \E h \in DOMAIN handlers : Mark(h)
      \/ \E h \in DOMAIN handlers : Convert(h)
      \/ \E h \in DOMAIN handlers : StoreIssue(h)
      \/ \E h \in DOMAIN handlers : StoreStats(h)
      \/ \E h \in DOMAIN handlers : Complete(h)
      \/ \E h \in DOMAIN handlers : Respond(h)
      \/ \E h \in DOMAIN handlers : Throw(h)
      \/ \E h \in DOMAIN handlers : Catch(h)
      \/ \E h \in DOMAIN handlers : Fail(h)
      \/ \E h \in DOMAIN handlers : Reject(h)

\* GET /api/convert/:jobId/download: the response to a request for jobId
Download(jobId) ==
  LET \* job.fileName.replace(/\.[^/.]+$/, "")
      Extension(s) ==
        {i \in 1..Len(s) - 1 :
           /\ Char(s, i) = "."
           /\ \A k \in i + 1..Len(s) : Char(s, k) \notin {"/", "."}}
      BaseName(s) ==
        IF Extension(s) = {} THEN s ELSE SubSeq(s, 1, Least(Extension(s)) - 1)
      Send(job) ==
        [status |-> 200,
         fileName |-> BaseName(job.fileName) \o "_mariadb103.sql",
         body |-> job.convertedContent[1]]
  IN  IF \/ jobId \notin DOMAIN conversionJobs
         \/ conversionJobs[jobId].convertedContent \in {<<>>, <<"">>}
      THEN [status |-> 404, fileName |-> "", body |-> ""]
      ELSE Send(conversionJobs[jobId])

\* the server after start-up; no conversion runs in the page
JobInit ==
  /\ Fresh
  /\ parts = <<>>
  /\ sqlContent = ""
  /\ convertedSQL = ""
  /\ issues = <<>>
  /\ stats = NoStats
  /\ pc = "done"
  /\ pass = MaxPasses
  /\ results = {}

JobSpec == JobInit /\ [][Upload \/ Analyze]_vars

\* a handler that can take a step takes it: its continuations are queued
\* as its awaited promises settle
JobLiveSpec == JobSpec /\ WF_vars(Analyze)

---------------------------------------------------------------------------
(* The claims                                                              *)

\* the number of recorded issues of one severity, and of those marked
\* autoFixed
IssuesOfType(type) ==
  Cardinality({k \in 1..Len(issues) : issues[k].issueType = type})

AutoFixedIssues == Cardinality({k \in 1..Len(issues) : issues[k].autoFixed})

\* C1: in every returned result stats.totalIssues is the number of issues,
\* warningsCount, errorsCount and optimizationsCount are the numbers of
\* warning, error and info issues and add up to totalIssues, and
\* stats.autoFixed is the number of issues whose autoFixed flag is true
C1_StatsConsistent ==
  pc = "done" =>
    /\ stats.totalIssues = Len(issues)
    /\ stats.warningsCount = IssuesOfType("warning")
    /\ stats.errorsCount = IssuesOfType("error")
    /\ stats.optimizationsCount = IssuesOfType("info")
    /\ stats.warningsCount + stats.errorsCount + stats.optimizationsCount
         = stats.totalIssues
    /\ stats.autoFixed = AutoFixedIssues

\* a returned result with issues of all three severities, recorded through
\* addIssue and by hand, some of them not fixed
C1_Witness ==
  /\ pc = "done"
  /\ stats.warningsCount > 0
  /\ stats.errorsCount > 0
  /\ stats.optimizationsCount > 1
  /\ stats.autoFixed > 0
  /\ stats.autoFixed < stats.totalIssues

\* s begins with t, s ends with t
StartsWith(s, t) == Len(s) >= Len(t) /\ SubSeq(s, 1, Len(t)) = t

EndsWith(s, t) == Len(s) >= Len(t) /\ SubSeq(s, Len(s) - Len(t) + 1, Len(s)) = t

\* the number of recorded issues with the given description
IssuesDescribed(description) ==
  Cardinality({k \in 1..Len(issues) : issues[k].description = description})

\* C2: for the empty string and for every input that contains neither
\* SET NAMES utf8mb4 nor commit in any letter case, the returned convertedSQL
\* is the header, then the rewritten input, then an appended COMMIT;, and
\* stats.totalIssues is at least 1
C2_HeaderInputCommit ==
  ( /\ pc = "done"
    /\ pass = 1
    /\ ~Includes(sqlContent, "SET NAMES utf8mb4")
    /\ ~IncludesI(sqlContent, "commit") ) =>
    /\ StartsWith(convertedSQL, header)
    /\ EndsWith(convertedSQL, "\n\nCOMMIT;\n")
    /\ Len(convertedSQL) >= Len(header) + Len("\n\nCOMMIT;\n")
    /\ IssuesDescribed("Added COMMIT statement at end of file") = 1
    /\ stats.totalIssues >= 1

headerHead ==
  "-- MariaDB 10.3 Compatible SQL Export\n"
  \o "-- Optimized for ALL data types including colors, emojis, special characters\n"
  \o "SET NAMES utf8mb4 COLLATE utf8mb4_general_ci;\n"
  \o "SET character_set_client = utf8mb4;\n"
  \o "SET character_set_connection = utf8mb4;\n"
  \o "SET character_set_results = utf8mb4;\n"

Without(s, ends) == ReplaceAll(s, [m \in Matches(ends) |-> Keep("")]).text

\* the words of s, as pairs <<start, end>>
WordsOf(s) == {<<j, Star(s, j, WordChars)>> : j \in WordStarts(s)}

\* what the claim makes of a word
ClaimedCollation(word) ==
  IF ToLowerCase(word) = "utf8mb4_0900_as_cs" THEN "utf8mb4_bin"
  ELSE IF ToLowerCase(word) = "utf8mb4_0900_ai_ci" THEN "utf8mb4_unicode_ci"
  ELSE word

\* the words of s the claim has replaced
ClaimedTokens(s) ==
  {m \in WordsOf(s) : ClaimedCollation(SubSeq(s, m[1], m[2] - 1)) # SubSeq(s, m[1], m[2] - 1)}

\* C4: after the collation rule every whole token utf8mb4_0900_as_cs reads
\* utf8mb4_bin and every whole token utf8mb4_0900_ai_ci reads
\* utf8mb4_unicode_ci, every other word (a name that only extends a
\* collation name included) is unchanged, and one issue per replaced token
\* is recorded, a warning of category compatibility with autoFixed true
C4_TokenReplacement ==
  pc \in {"setNames", "libSetNames"} =>
    /\ convertedSQL =
         ReplaceAll(sqlContent,
                    [m \in WordsOf(sqlContent) |->
                       Keep(ClaimedCollation(SubSeq(sqlContent, m[1], m[2] - 1)))]).text
    /\ Len(issues) = Cardinality(ClaimedTokens(sqlContent))
    /\ \A k \in 1..Len(issues) :
         /\ issues[k].issueType = "warning"
         /\ issues[k].category = "compatibility"
         /\ issues[k].autoFixed

\* the lines of a text that declare a binary collation
BinaryLines(lines) ==
  {k \in 1..Len(lines) : Includes(lines[k], "COLLATE utf8mb4_bin")}

\* the lines of a text that declare a case-sensitive or binary collation
CaseSensitiveLines(lines) ==
  BinaryLines(lines)
    \cup {k \in 1..Len(lines) : Includes(lines[k], "COLLATE utf8mb4_0900_as_cs")}

\* C5: in the returned text every column that was declared with a
\* case-sensitive or binary collation has the collation utf8mb4_bin, and no
\* such column carries a case-insensitive (_ci) collation
C5_CaseSensitivityPreserved ==
  (pc = "done" /\ pass = 1) =>
    /\ Cardinality(BinaryLines(Split(convertedSQL)))
         = Cardinality(CaseSensitiveLines(Split(sqlContent)))
    /\ \A k \in BinaryLines(Split(convertedSQL)) :
         ~Includes(Split(convertedSQL)[k], "_ci")
    /\ ~Includes(convertedSQL, "utf8mb4_0900_as_cs")

\* C6: every INSERT statement of the input is a line of the returned text,
\* its VALUES literal unchanged, whatever precedes it
C6_InsertLiteralsUntouched ==
  (pc = "done" /\ pass = 1) =>
    \A k \in 1..Len(Split(sqlContent)) :
      StartsWith(Split(sqlContent)[k], "INSERT INTO") =>
        \E m \in 1..Len(Split(convertedSQL)) :
          Split(convertedSQL)[m] = Split(sqlContent)[k]

\* the end of the user or host name that starts at p, quoted or bare
AccountNameEnd(s, p) ==
  IF LitAt(s, p, BT) THEN L(s, StarNot(s, p + 1, {BT}), BT)
  ELSE IF LitAt(s, p, "'") THEN L(s, StarNot(s, p + 1, {"'"}), "'")
  ELSE Plus(s, p, WordChars \cup {"%", "."})

\* the clauses DEFINER=user@host of s, each with its trailing white space
DefinerClauses(s) ==
  {<<j, S0(s, AccountNameEnd(s, L(s, AccountNameEnd(s, S0(s, L(s, S0(s, K(s, j, "definer")), "="))), "@")))>> :
     j \in 1..Len(s)}

\* C7: the DEFINER rule deletes exactly the clauses DEFINER=user@host with
\* their trailing white space, leaves every other character as it was, and
\* records one warning with autoFixed true per clause
C7_ExactlyTheClause ==
  [][pc = "definer" =>
       /\ convertedSQL' = Without(convertedSQL, DefinerClauses(convertedSQL))
       /\ Len(issues') = Len(issues) + Cardinality(Matches(DefinerClauses(convertedSQL)))
       /\ \A k \in (Len(issues) + 1)..Len(issues') :
            issues'[k].issueType = "warning" /\ issues'[k].autoFixed]_vars

\* the comments of s: from -- to the end of the line
Comments(s) ==
  {<<j, IF LitAt(s, j, "--") THEN First(s, j, Len(s), {NL}, TRUE) ELSE 0>> : j \in 1..Len(s)}

\* the text a server executes: s without its comments
EffectiveSQL(s) == Without(s, Comments(s))

\* C8: every column definition with a trailing INVISIBLE produces one error
\* issue, the word INVISIBLE is gone from the definitions of the returned
\* text, and the rest of each definition, its comma included, is still
\* effective SQL
C8_InvisibleRemoved ==
  (pc = "done" /\ pass = 1) =>
    /\ IssuesOfType("error") = Occurrences(sqlContent, " INVISIBLE")
    /\ ~Includes(EffectiveSQL(convertedSQL), "INVISIBLE")
    /\ Occurrences(EffectiveSQL(convertedSQL), ",") = Occurrences(sqlContent, ",")

\* the statements kw TABLES ...; of s (kw is lock or unlock)
TableStatements(s, kw) ==
  {<<j, IF WordBoundary(s, j)
        THEN L(s, StarNot(s, K(s, S1(s, K(s, j, kw)), "tables"), {";"}), ";")
        ELSE 0>> : j \in 1..Len(s)}

\* s without its white space
Squeeze(s) == Without(s, {<<j, S1(s, j)>> : j \in 1..Len(s)})

\* the rule for the statements kw TABLES has commented out every such
\* statement that was effective in before, entirely and with one warning
\* each, and has changed nothing where there was none
CommentedOut(before, after, kw, old, new) ==
  /\ Squeeze(EffectiveSQL(after))
       = Squeeze(Without(EffectiveSQL(before), TableStatements(EffectiveSQL(before), kw)))
  /\ Len(new) = Len(old) + Cardinality(Matches(TableStatements(EffectiveSQL(before), kw)))
  /\ \A k \in (Len(old) + 1)..Len(new) : new[k].issueType = "warning"
  /\ Matches(TableStatements(EffectiveSQL(before), kw)) = {} => after = before

\* C9: the LOCK TABLES rule and the UNLOCK TABLES rule comment out every
\* such statement entirely (each of its lines), with one warning per
\* statement, and a second conversion changes nothing more in those lines
C9_LockStatementsCommentedOut ==
  [][/\ pc = "lockTables" =>
          CommentedOut(convertedSQL, convertedSQL', "lock", issues, issues')
     /\ pc = "unlockTables" =>
          CommentedOut(convertedSQL, convertedSQL', "unlock", issues, issues')]_vars

\* the text has an empty line or a line of white space only
HasBlankLine(s) == \E j \in 1..Len(s) : LineStart(s, j) /\ RunNewlines(s, j) # {}

\* the issues of a result that report a construct the engine detected and
\* did not fix
DetectedUnfixed(found) ==
  {k \in 1..Len(found) :
     ~found[k].autoFixed /\ Includes(found[k].description, " detected")}

\* C10: a call of convert never stops before its return, whatever the input
\* (the empty string and malformed SQL included): every rule hands over to
\* the next one and the last one to the return; the incompatibilities the
\* call detects and cannot fix are reported as warning or error issues; and
\* an input in which no rule finds anything (no issue, no blank line to
\* clean up) is returned with its text unchanged
C10_ReturnsAndReports ==
  [][/\ pc # "done" => pc' = After(pc)
     /\ pc' = "done" =>
          /\ \A k \in DetectedUnfixed(issues') :
               issues'[k].issueType \in {"warning", "error"}
          /\ (issues' = <<>> /\ ~HasBlankLine(sqlContent')) =>
               convertedSQL' = sqlContent']_vars

EngineRuns(j) ==
  {h \in DOMAIN handlers : handlers[h].jobId = j /\ handlers[h].conversionResult # <<>>}

\* C12: whatever analyze requests a job receives, the engine is invoked
\* exactly once for it, and its status only moves pending -> analyzing ->
\* completed or pending -> analyzing -> failed: a completed or failed job
\* never returns to analyzing
C12_AnalyzedOnce ==
  [][\A j \in DOMAIN conversionJobs :
       /\ Cardinality(EngineRuns(j))' <= 1
       /\ conversionJobs'[j].status = "completed" => Cardinality(EngineRuns(j))' = 1
       /\ \/ conversionJobs'[j].status = conversionJobs[j].status
          \/ <<conversionJobs[j].status, conversionJobs'[j].status>> \in
               {<<"pending", "analyzing">>, <<"analyzing", "completed">>,
                <<"analyzing", "failed">>}]_vars

\* C13: convertedContent and completedAt of a job are non-null only while
\* its status is completed; a job that failed has no converted content
C13_ContentOnlyWhenCompleted ==
  \A j \in DOMAIN conversionJobs :
    \/ conversionJobs[j].status = "completed"
    \/ /\ conversionJobs[j].convertedContent = <<>>
       /\ conversionJobs[j].completedAt = <<>>

StoredIssues(j) ==
  IF j \in DOMAIN conversionIssues THEN conversionIssues[j] ELSE <<>>

\* C15: for a completed job the stored issues are the issues the engine
\* returns for the job's original content, in that order and once each,
\* the stored stats are the engine's, and the stored totalIssues is the
\* number of stored issues
C15_StoredIsReturned ==
  \A j \in DOMAIN conversionJobs :
    conversionJobs[j].status = "completed" =>
      /\ StoredIssues(j) = convertMySQLToMariaDB[conversionJobs[j].originalContent].issues
      /\ j \in DOMAIN conversionStats
      /\ conversionStats[j] = convertMySQLToMariaDB[conversionJobs[j].originalContent].stats
      /\ conversionStats[j].totalIssues = Len(StoredIssues(j))

\* C16: at most one request at a time is between its first and its last
\* write to a job's record, issues and stats
C16_OneWriter ==
  \A j \in DOMAIN conversionJobs :
    Cardinality({h \in DOMAIN handlers :
                   /\ handlers[h].jobId = j
                   /\ handlers[h].pc \in {"marked", "converted", "stored"}}) <= 1

\* a file name without its last extension
WithoutLastExtension(name) ==
  LET dots == {i \in 2..Len(name) - 1 : SubSeq(name, i, i) = "."}
  IN  IF dots = {} THEN name
      ELSE SubSeq(name, 1, (CHOOSE i \in dots : \A k \in dots : k <= i) - 1)

\* C17: the download of a completed job is its converted text, as an
\* attachment named after the original file without its last extension,
\* followed by _mariadb103.sql; an unknown job and a job without converted
\* content get 404
C17_DownloadsConverted ==
  \A j \in 1..MaxJobs :
    /\ (j \in DOMAIN conversionJobs /\ conversionJobs[j].status = "completed") =>
         /\ Download(j).status = 200
         /\ Download(j).body = conversionJobs[j].convertedContent[1]
         /\ Download(j).fileName =
              WithoutLastExtension(conversionJobs[j].fileName) \o "_mariadb103.sql"
    /\ (j \notin DOMAIN conversionJobs \/ conversionJobs[j].convertedContent = <<>>) =>
         Download(j).status = 404

\* a table option that declares the character set name: CHARSET=name (with
\* or without DEFAULT), CHARACTER SET=name or CHARACTER SET name
CharsetDeclared(s, name) ==
  \E j \in 1..Len(s) :
    \/ B(s, K(s, S0(s, L(s, S0(s, K(s, j, "charset")), "=")), name)) # 0
    \/ B(s, K(s, S0(s, L(s, S0(s, K(s, S1(s, K(s, j, "character")), "set")), "=")), name)) # 0
    \/ B(s, K(s, S1(s, K(s, S1(s, K(s, j, "character")), "set")), name)) # 0

\* C18: a table option CHARSET=utf8, bare or with DEFAULT, ends as a
\* declaration of utf8mb4, and the output declares plain utf8 nowhere
C18_CharsetsConverge ==
  (pc = "done" /\ CharsetDeclared(sqlContent, "utf8")) =>
    /\ CharsetDeclared(convertedSQL, "utf8mb4")
    /\ ~CharsetDeclared(convertedSQL, "utf8")

\* text holds the keyword kw, white space and TABLE
HasTableKeyword(text, kw) ==
  \E i \in 1..Len(text) :
    KwAt(text, i, kw) /\ K(text, S1(text, i + Len(kw)), "table") # 0

GuardedRules ==
  {"collateGeneral", "plainKey", "textField", "varcharField", "collateUnicode"}

\* the end of the match of a guarded rule's pattern that starts at j (0: none);
\* of the key pattern only the matches of a plain KEY
GuardedMatch(rule, s, j) ==
  CASE rule = "collateGeneral" -> CollateMatch(s, j, "utf8_general_ci")
    [] rule = "collateUnicode" -> CollateMatch(s, j, "utf8_unicode_ci")
    [] rule = "varcharField" -> VarcharMatch(s, j)
    [] rule = "textField" -> TextFieldParse(s, j).e
    [] rule = "plainKey" ->
         IF LineStart(s, j)
         THEN L(s, PlusNot(s, L(s, S0(s, StarNot(s, S1(s, K(s, S0(s, j), "key")),
                                               Space \cup {"("})), "("), {")"}), ")")
         ELSE 0

\* the matches a global replace visits: no match starts inside an earlier one
GuardedMatches(rule, s) ==
  LET all == {m \in {<<j, GuardedMatch(rule, s, j)>> : j \in 1..Len(s)} : m[2] # 0}
  IN  {m \in all : \A n \in all : n[1] < m[1] => n[2] <= m[1]}

\* the matches of rule whose lookback window holds one of the keywords kws
InContext(rule, s, kws) ==
  {m \in GuardedMatches(rule, s) :
     \E kw \in kws :
       HasTableKeyword(BeforeMatch(s, m[1], IF rule \in {"textField", "varcharField"}
                                            THEN 300 ELSE 500), kw)}

\* C19: each guarded rule rewrites a match, and records an issue for it, if
\* and only if the lookback window before the match holds CREATE TABLE or
\* ALTER TABLE; with neither keyword the match is returned unchanged
C19_GuardedByCreateOrAlter ==
  [][(pc \in GuardedRules) =>
       ((Len(issues') - Len(issues) =
           Cardinality(InContext(pc, convertedSQL, {"create", "alter"})))
        /\ (InContext(pc, convertedSQL, {"create", "alter"}) = {} =>
              convertedSQL' = convertedSQL))]_vars

\* the keywords a guarded rule looks for
GuardKeywords(rule) ==
  IF rule \in {"collateGeneral", "collateUnicode"} THEN {"create", "alter"}
  ELSE {"create"}

\* the matches a guarded rule rewrites: those in context, but for a text
\* type whose CHARACTER SET part names utf8mb4
Rewritten(rule, s) ==
  {m \in InContext(rule, s, GuardKeywords(rule)) :
     rule = "textField" =>
       ~Includes(SubSeq(s, TextFieldParse(s, m[1]).u, TextFieldParse(s, m[1]).p - 1),
                 "utf8mb4")}

\* C19 as the rules work: the two COLLATE rules look for CREATE TABLE or
\* ALTER TABLE, the text, varchar and plain KEY rules for CREATE TABLE only,
\* and the text rule keeps a type that already names utf8mb4; a rule records
\* one issue per match it rewrites and returns every other match unchanged
C19_GuardedByOwnKeyword ==
  [][(pc \in GuardedRules) =>
       ((Len(issues') - Len(issues) = Cardinality(Rewritten(pc, convertedSQL)))
        /\ (Rewritten(pc, convertedSQL) = {} => convertedSQL' = convertedSQL))]_vars

\* the varchar rule has rewritten one column and left another, and the
\* text holds an ALTER TABLE
C19_Witness ==
  /\ pc = "collateUnicode"
  /\ pass = 1
  /\ HasTableKeyword(convertedSQL, "alter")
  /\ \E k \in 1..Len(issues) : issues[k].description = "Enhanced varchar field"
  /\ \E j \in 1..Len(convertedSQL) : VarcharMatch(convertedSQL, j) # 0

\* the conditional comments of s, as pairs of start and end
ConditionalComments(s) ==
  LET all == {m \in {<<j, VersionCommentMatch(s, j)>> : j \in 1..Len(s)} : m[2] # 0}
  IN  {m \in all : \A n \in all : n[1] < m[1] => n[2] <= m[1]}

\* text holds a pattern of the deny list
ContainsDenied(text) ==
  \/ Includes(text, "@@")
  \/ IncludesI(text, "use_index")
  \/ IncludesI(text, "force_index")
  \/ IncludesI(text, "ignore_index")
  \/ IncludesI(text, "sql_calc_found_rows")

\* C20: the version comment rule deletes every conditional comment whose
\* body contains a deny-listed pattern, with a warning issue, and keeps
\* every other conditional comment verbatim, with an info issue whose
\* autoFixed is false
C20_TriagedByContent ==
  [][(pc \in {"versionComment", "libSetNames"}) =>
       ((convertedSQL' =
           Without(convertedSQL,
                   {m \in ConditionalComments(convertedSQL) :
                      ContainsDenied(SubSeq(convertedSQL, m[1], m[2] - 1))}))
        /\ (Len(issues') - Len(issues) = Cardinality(ConditionalComments(convertedSQL)))
        /\ (\A k \in Len(issues) + 1..Len(issues') :
              IF ContainsDenied(issues'[k].originalText)
              THEN issues'[k].issueType = "warning"
              ELSE issues'[k].issueType = "info" /\ ~issues'[k].autoFixed))]_vars

\* the rules that the specification lists as detection only
FlagOnlyRules ==
  {"cte", "windowFunction", "generatedColumn", "checkConstraint", "jsonFunction",
   "fulltext", "partition", "jsonLine", "ifNotExists", "indexLength"}

\* C21: the detection rules (CTE, window function, generated column, CHECK
\* constraint, JSON function, FULLTEXT parser clause, partitioning, JSON
\* line, CREATE TABLE IF NOT EXISTS, index length) leave the working text
\* as it was, and only append issues that are not auto-fixed
C21_FlagOnlyKeepsText ==
  [][(pc \in FlagOnlyRules) =>
       ((convertedSQL' = convertedSQL)
        /\ (Len(issues') >= Len(issues))
        /\ (SubSeq(issues', 1, Len(issues)) = issues)
        /\ (\A k \in Len(issues) + 1..Len(issues') : ~issues'[k].autoFixed))]_vars

\* C22: an issue is autoFixed exactly when the rule that recorded it changed
\* the working text: a step that records an auto-fixed issue changes the
\* text and adds to stats.autoFixed, and a step that records only issues
\* that are not auto-fixed leaves the text and stats.autoFixed as they were
C22_AutoFixedIffRewritten ==
  [][(Len(issues') > Len(issues)) =>
       (IF \E k \in Len(issues) + 1..Len(issues') : issues'[k].autoFixed
        THEN convertedSQL' # convertedSQL /\ stats'.autoFixed > stats.autoFixed
        ELSE convertedSQL' = convertedSQL /\ stats'.autoFixed = stats.autoFixed)]_vars

\* C23: every issue with autoFixed = true carries a convertedText, a rule
\* only appends to the list of issues (what was recorded before stays in
\* front, unchanged, in pipeline order), and the list a call returns is the
\* list its last rule left
C23_IssuesAppendOnly ==
  [][/\ (pc # "done") =>
          (/\ Len(issues') >= Len(issues)
           /\ SubSeq(issues', 1, Len(issues)) = issues)
     /\ \A k \in 1..Len(issues') :
          issues'[k].autoFixed =>
            (/\ "convertedText" \in DOMAIN issues'[k]
             /\ issues'[k].convertedText # "")]_vars

\* a call has returned issues of both kinds, recorded by several rules
C23_Witness ==
  /\ pc = "done"
  /\ Len(issues) >= 4
  /\ \E k \in 1..Len(issues) :
       issues[k].autoFixed /\ issues[k].convertedText # issues[k].originalText
  /\ \E k \in 1..Len(issues) : ~issues[k].autoFixed
  /\ Cardinality({issues[k].description : k \in 1..Len(issues)}) >= 3

\* the elements of a comma-separated list from position from on, trimmed
RECURSIVE CommaSplit(_, _)
CommaSplit(list, from) ==
  LET Element(c) ==
        IF c > Len(list) THEN <<Trim(Slice(list, from, Len(list)))>>
        ELSE <<Trim(Slice(list, from, c - 1))>> \o CommaSplit(list, c + 1)
  IN  Element(First(list, from, Len(list), {","}, TRUE))

\* the mode lists of the SET SQL_MODE = '...' statements of s from position
\* from on, in order
RECURSIVE ModeLists(_, _)
ModeLists(s, from) ==
  LET Value(j) ==
        LET q == S0(s, L(s, S0(s, K(s, S1(s, K(s, j, "set")), "sql_mode")), "="))
        IN  IF q # 0 /\ q <= Len(s) /\ Char(s, q) \in Quotes
               /\ StarNot(s, q + 1, Quotes) <= Len(s)
            THEN q + 1 ELSE 0
      Rest(j) ==
        IF j = 0 THEN <<>>
        ELSE <<Slice(s, Value(j), StarNot(s, Value(j), Quotes) - 1)>>
             \o ModeLists(s, StarNot(s, Value(j), Quotes))
  IN  Rest(Least({j \in from..Len(s) : Value(j) # 0}))

\* the mode names of a list that MariaDB knows, in order
KeptModes(list) ==
  SelectSeq(CommaSplit(list, 1),
            LAMBDA t : /\ t # ""
                       /\ ToLowerCase(t) \notin {"no_auto_create_user",
                                                 "no_engine_substitution"})

\* C24: the SQL_MODE rule rewrites every SET SQL_MODE list to the list of
\* its other mode names, each a separate element, in their order, without
\* NO_AUTO_CREATE_USER and NO_ENGINE_SUBSTITUTION and without a leading,
\* trailing or doubled comma
C24_ModeListCleaned ==
  [][(pc = "sqlMode") =>
       (/\ Len(ModeLists(convertedSQL', 1)) = Len(ModeLists(convertedSQL, 1))
        /\ \A i \in 1..Len(ModeLists(convertedSQL, 1)) :
             IF KeptModes(ModeLists(convertedSQL, 1)[i]) = <<>>
             THEN ModeLists(convertedSQL', 1)[i] = ""
             ELSE CommaSplit(ModeLists(convertedSQL', 1)[i], 1)
                    = KeptModes(ModeLists(convertedSQL, 1)[i]))]_vars

\* the index definitions (KEY or INDEX with a column list) of s that follow
\* CREATE TABLE within 500 characters, as pairs of start and end
TableIndexes(s) ==
  LET all == {m \in {<<j, IndexMatch(s, j)>> : j \in 1..Len(s)} : m[2] # 0}
  IN  {m \in all : /\ \A n \in all : n[1] < m[1] => n[2] <= m[1]
                   /\ InCreateTable(s, m[1], 500)}

\* the index definition m of s names a column that s declares as
\* VARCHAR(N) with N of 200 or more
OverLargeVarchar(s, m) ==
  \E a \in IndexColumns(s, m[1])..m[2] - 1 :
    /\ QuotedName(s, a) # 0
    /\ \E i \in 1..Len(s) :
         /\ LitAt(s, i, SubSeq(s, a, QuotedName(s, a) - 1))
         /\ KwAt(s, S1(s, i + QuotedName(s, a) - a), "varchar")
         /\ HasLargeVarchar(SubSeq(s, i, StarNot(s, i, {",", NL}) - 1))

\* C25: the index length rule records one error issue that is not
\* auto-fixed for every index or key of a CREATE TABLE body over a column
\* declared as VARCHAR(N) with N >= 200, and leaves the text unchanged
C25_LargeIndexFlagged ==
  [][(pc = "indexLength") =>
       (/\ convertedSQL' = convertedSQL
        /\ Len(issues') - Len(issues) =
             Cardinality({m \in TableIndexes(convertedSQL) :
                            OverLargeVarchar(convertedSQL, m)})
        /\ \A k \in Len(issues) + 1..Len(issues') :
             issues'[k].issueType = "error" /\ ~issues'[k].autoFixed)]_vars

\* C26: a column typed json inside CREATE TABLE stands in the returned
\* convertedSQL as longtext COLLATE utf8mb4_bin, followed by the column
\* constraints that followed json in the input
C26_JsonColumnBinary ==
  (pc = "done") =>
    \A j \in 1..Len(sqlContent) :
      (JsonColumnMatch(sqlContent, j) # 0 /\ InCreateTable(sqlContent, j, 300)) =>
        Includes(convertedSQL,
                 SubSeq(sqlContent, j, QuotedName(sqlContent, j) - 1)
                 \o " longtext COLLATE utf8mb4_bin"
                 \o SubSeq(sqlContent, JsonColumnType(sqlContent, j),
                           JsonColumnMatch(sqlContent, j) - 1))

\* no column definition of s has two COLLATE clauses: between two COLLATE
\* keywords there is a comma, a semicolon or a line end
OneCollateEach(s) ==
  LET at == {i \in 1..Len(s) : KwAt(s, i, "collate ")}
  IN  \A i, k \in at :
        i < k => \E c \in i..k : Char(s, c) \in {",", ";", NL}

\* C27: the varchar rule leaves no column definition with two COLLATE
\* clauses (a varchar(N) that already has a utf8mb4 charset or collation is
\* not given another), and its output holds no varchar(N) that the rule
\* would rewrite again
C27_VarcharOnlyWhenBare ==
  [][(pc = "varcharField") =>
       (/\ OneCollateEach(convertedSQL) => OneCollateEach(convertedSQL')
        /\ \A j \in 1..Len(convertedSQL') :
             VarcharMatch(convertedSQL', j) # 0 => ~InCreateTable(convertedSQL', j, 300))]_vars

\* the rules that record the trimmed match as originalText
TrimmingRules ==
  {"definer", "dumping", "usingBtree", "localInfile", "foreignKeyChecks", "sqlMode",
   "lockTables", "unlockTables", "cte", "windowFunction", "jsonFunction",
   "disableKeys", "enableKeys", "plainKey"}

\* the texts a rule can have matched in s when it recorded originalText:
\* an occurrence of originalText in s, for a trimming rule with the white
\* space around it
MatchTexts(rule, s, originalText) ==
  LET occ == {p \in 1..Len(s) : LitAt(s, p, originalText)}
      Left(p) == IF rule \in TrimmingRules
                 THEN {a \in 1..p : \A c \in a..p - 1 : Char(s, c) \in Space}
                 ELSE {p}
      Right(q) == IF rule \in TrimmingRules
                  THEN {b \in q..Len(s) : \A c \in q + 1..b : Char(s, c) \in Space}
                  ELSE {q}
  IN  UNION {{SubSeq(s, a, b) : a \in Left(p), b \in Right(p + Len(originalText) - 1)} :
             p \in occ}

\* 1 + the number of line ends before the first occurrence of text in
\* content, 1 when text does not occur in content
LineOfFirst(content, text) ==
  LET occ == {p \in 1..Len(content) : LitAt(content, p, text)}
  IN  IF occ = {} \/ text = "" THEN 1
      ELSE 1 + Cardinality({c \in 1..Min(occ) - 1 : Char(content, c) = NL})

\* C28: the line number of every issue of a pattern rule is 1 + the number
\* of line ends before the first occurrence of the matched text in the
\* original input, and 1 when the matched text does not occur there; the
\* getLineNumber of lib/sql-converter.ts gives the same number, and every
\* line number is at least 1
C28_LineOfFirstOccurrence ==
  [][(pc \notin {"generatedColumn", "jsonLine", "header", "commit"}) =>
       \A k \in Len(issues) + 1..Len(issues') :
         /\ issues'[k].lineNumber >= 1
         /\ \E m \in MatchTexts(pc, convertedSQL, issues'[k].originalText) :
              /\ issues'[k].lineNumber = LineOfFirst(sqlContent, m)
              /\ libGetLineNumber(sqlContent, m) = LineOfFirst(sqlContent, m)]_vars

\* a call has returned an issue of a later line and an issue whose matched
\* text is not in the input, reported at line 1
C28_Witness ==
  /\ pc = "done"
  /\ \E k \in 1..Len(issues) : issues[k].lineNumber > 2
  /\ \E k \in 1..Len(issues) :
       /\ issues[k].lineNumber = 1
       /\ ~Includes(sqlContent, issues[k].originalText)
       /\ issues[k].originalText \notin {"-- File beginning", "-- File end"}

\* C29: the engine of lib/sql-converter.ts and the engine of converter.tsx
\* give, for the rule both have (the collation replacement), the same
\* text and the same issues on the same input: same match, same
\* replacement, same line
C29_SharedRulesAgree ==
  [][(pc = "collation") =>
       LET page == CollationRule(sqlContent, Eng, mysqlCollationMap, "",
                                 "Replaced MySQL 8.0+ collation")
       IN  /\ convertedSQL' = page.sql
           /\ Len(issues') = Len(page.issues)
           /\ \A k \in 1..Len(issues') :
                /\ issues'[k].originalText = page.issues[k].originalText
                /\ issues'[k].convertedText = page.issues[k].convertedText
                /\ issues'[k].lineNumber = page.issues[k].lineNumber
                /\ issues'[k].issueType = page.issues[k].issueType
                /\ issues'[k].autoFixed = page.issues[k].autoFixed]_vars

\* the backtick-quoted identifiers of s from position from on, in order
RECURSIVE QuotedNames(_, _)
QuotedNames(s, from) ==
  LET Rest(p) ==
        IF p = 0 THEN <<>>
        ELSE <<SubSeq(s, p, QuotedName(s, p) - 1)>> \o QuotedNames(s, QuotedName(s, p))
  IN  Rest(Least({p \in from..Len(s) : QuotedName(s, p) # 0}))

\* C30: the text-type rule leaves every backtick-quoted identifier as it
\* was, also one that is named text, longtext, mediumtext or tinytext: the
\* identifiers of the working text are the same after the rule as before
C30_ColumnNamesKept ==
  [][(pc = "textField") =>
       (QuotedNames(convertedSQL', 1) = QuotedNames(convertedSQL, 1))]_vars

====
